---- MODULE Spec2Model ----
(***************************************************************************)
(* ViData export engine.                                                   *)
(*                                                                         *)
(*   SpecFF   the filter-graph backend (FFmpegManager, ffmpeg-utils.ts)    *)
(*   SpecFC   the frame-capture backend (SimpleExportManager,              *)
(*            simple-export.ts) driven by the export dialog                *)
(*            (ExportModal.tsx)                                            *)
(*   SpecExport  either backend                                            *)
(*   SpecSeg  the preview player's timeline segmenter (VideoPlayer.tsx)    *)
(*   SpecScenarioB  the segmenter on a 10 s source with slides of 3 s, 4 s *)
(*   SpecEscape, SpecChain  caption escaping and the filter chain with its *)
(*            command (buildFilters, buildFFmpegCommand)                   *)
(*   SpecPosition  the caption anchor (getSubtitlePosition)                *)
(*   SpecScale  the preview overlays' scaled quantities                    *)
(*   SpecEditor  the watermark editor form (WatermarkEditor.tsx)           *)
(*   SpecSlides  the frame-capture backend on projects with slides, with   *)
(*            the image and timer callbacks fairly scheduled               *)
(*   SpecDraw  the draws of one frame of the main video                    *)
(*   SpecConcat  the filter-graph backend on projects with slides          *)
(*   SpecTimeline  the project's video, slides and timeline (App)          *)
(*   SpecPlayback  preview playback left to the media events               *)
(*                                                                         *)
(* Every `await` of the source is an action boundary: an action is the     *)
(* completion of the awaited operation together with the synchronous code  *)
(* that follows it up to the next await.  The outcomes of the external     *)
(* collaborators (transcoding engine, media elements, recorder, image      *)
(* loader) are inputs chosen with \E.                                      *)
(***************************************************************************)
EXTENDS Integers, Sequences, FiniteSets, TLC

\* ------------------------------------------------------------------ bounds
MaxExports == 2
MaxWm == 1
MaxSlides == 1
MaxHookEvents == 1
MaxConcatSlides == 2

VARIABLES
    \* ---- FFmpegManager
    ffmpeg,        \* "null" | "inst"            (this.ffmpeg)
    isLoaded,      \* BOOLEAN                    (this.isLoaded)
    hookCb,        \* callback captured by the engine's 'progress' listener, 0 = none
    ffPc,          \* position of the running exportVideo call
    ffExport,      \* number of the current export = identity of its onProgress
    ffIn,          \* [nWm, nDisc]: watermarks and slides of the current export
    ffIdx,         \* loop index i of the for loops
    ffEvents,      \* progress events delivered during the current export
    ffCalls,       \* engine calls of the current export, with their outcome
    ffHooks,       \* engine progress notifications raised in the current export
    fsFiles,       \* files present in the engine's file system
    outputOwner,   \* export that wrote the output.mp4 now in the file system, 0 = none
    ffArtifact     \* export whose output.mp4 the returned Blob holds, 0 = none

ffVars == <<ffmpeg, isLoaded, hookCb, ffPc, ffExport, ffIn, ffIdx, ffEvents,
            ffCalls, ffHooks, fsFiles, outputOwner, ffArtifact>>

VARIABLES
    \* ---- ExportModal (React state) and App.showExportModal
    showExportModal, \* App: the dialog is mounted
    ownerMounted,    \* the dialog instance that awaits the session is mounted
    isExporting,
    isComplete,
    exportProgress,  \* progress shown by the dialog, -1 = null
    exportedBlob,    \* BOOLEAN: a Blob is held
    \* ---- SimpleExportManager.exportVideo (one call = one session)
    fcPc,            \* position of the latest exportVideo call
    fcSession,       \* number of exportVideo calls so far
    inFlight,        \* exportVideo promises not yet settled
    fcProject,       \* [dur, wms, subs, discs]: the props of the dialog
    fcEvents,        \* progress events delivered through onProgress
    fcAudio,         \* outcome of the audio acquisition chain, until the next step
    hasAudioTrack,   \* combinedStream holds an audio track
    fcWarnings,      \* console.warn records of the session
    fcLoaded,        \* watermarks whose image is available
    fcRecorder,      \* "none" | "recording" | "inactive"   (recorder.state)
    videoPaused,     \* videoElement.paused ("none" before the element exists)
    audioPaused,     \* audioElement.paused
    stopPending,     \* the recorder still owes a 'stop' event to onstop
    fcTime,          \* videoElement.currentTime, in frame periods (1/25 s)
    frameCount,
    lastFrame,       \* draw operations of the latest frame, in order
    slideIdx,        \* currentDisclaimerIndex
    slideElapsed     \* Date.now() - disclaimerStartTime, in frame periods

VARIABLES
    \* ---- VideoPlayer and the timeline state of App, times in tenths of a second
    videoDuration,      \* video.duration
    disclaimers,        \* the trailer slides, [duration]
    timelineTime,       \* timeline.currentTime
    videoTime,          \* videoElement.currentTime
    showingDisclaimer,  \* index of the slide shown, -1 = none
    disclaimerStartTime \* start of the slide shown, measured from the end of the video

VARIABLES
    \* ---- pure functions of the builders and resolvers: input and result
    pureOp,             \* the function applied last, "none" before any
    pureIn,             \* its arguments, a record with the names of the source
    pureOut             \* its result, a record with the names of the source

pureVars == <<pureOp, pureIn, pureOut>>

VARIABLES
    \* ---- WatermarkEditor (React state and props), times in seconds
    isAdding,           \* the form is shown
    editingId,          \* id of the watermark being edited, 0 = null
    uploadedFile,       \* BOOLEAN: an image file is held
    formData,           \* [startTime, endTime] of the form
    watermarks,         \* project.watermarks, records [id, startTime, endTime]
    currentTime,        \* prop currentTime
    edVideoDuration,    \* prop videoDuration
    nextId              \* number of ids generateId has handed out, plus one

edVars == <<isAdding, editingId, uploadedFile, formData, watermarks,
            currentTime, edVideoDuration, nextId>>

VARIABLES
    \* ---- App: the project's video and timeline, times in tenths of a second
    hasVideo,           \* project.video # null
    timelineDuration,   \* project.timeline.duration
    metadataPending     \* the player's video element still owes 'loadedmetadata'

appVars == <<hasVideo, timelineDuration, metadataPending>>

VARIABLE backend     \* which subsystem a behaviour exercises

segVars == <<videoDuration, disclaimers, timelineTime, videoTime,
             showingDisclaimer, disclaimerStartTime>>

modalVars == <<showExportModal, ownerMounted, isExporting, isComplete,
               exportProgress, exportedBlob>>

sessVars == <<fcPc, fcSession, inFlight, fcEvents, fcAudio,
              hasAudioTrack,
              fcWarnings, fcLoaded, fcRecorder, videoPaused, audioPaused,
              stopPending, fcTime, frameCount, lastFrame,
              slideIdx, slideElapsed>>

fcVars == <<modalVars, sessVars, fcProject>>

vars == <<backend, ffVars, fcVars, segVars, pureVars, edVars, appVars>>

\* ==========================================================================
\*                         FILTER-GRAPH BACKEND
\* ==========================================================================

\* ExportProgress.phase
Phases == <<"loading", "processing", "rendering", "finalizing">>

PhaseRank(p) == CHOOSE i \in 1..Len(Phases) : Phases[i] = p

\* onProgress?.({phase, progress, message}) of the callback cb
Emit(log, cb, phase, progress) ==
    Append(log, [cb |-> cb, phase |-> phase, progress |-> progress])

\* this.ffmpeg.on('progress', ...): the listener calls the onProgress of the
\* initialize() call that registered it, always with phase 'processing'.
HookEmit(log, p) ==
    IF hookCb # 0 THEN Emit(log, hookCb, "processing", p) ELSE log

\* values of Math.round(progress * 100) the engine reports
HookPercents == {0, 100}

\* names in the engine's file system
FInput == <<"input.mp4", 0>>
FOutput == <<"output.mp4", 0>>
FMainOutput == <<"main_output.mp4", 0>>
FConcatList == <<"concat_list.txt", 0>>
FTempMain == <<"temp_main.mp4", 0>>
FWatermark(i) == <<"watermark", i>>
FDisclaimer(i) == <<"disclaimer", i>>

\* a clip name that does not depend on the slide
FDisclaimerVideoNoIndex(i) == <<"disclaimer_video", 0>>

FDisclaimerVideo(i) == <<"disclaimer_video", i>>

\* outcome of this.ffmpeg.exec(args): the promise resolves with the exit
\* status of the command (the source discards it) or rejects.
ExecOutcomes == {"ok", "nonzero", "throw"}

\* outcome of writeFile / readFile / fetchFile
IoOutcomes == {"ok", "throw"}

\* a call of the engine: data is what a writeFile of a text file writes
CallWith(op, file, data, res) == [op |-> op, file |-> file, data |-> data, res |-> res]

Call(op, file, res) == CallWith(op, file, <<>>, res)

\* this.ffmpeg.exec(args): the files the command reads and what it does to
\* the pictures: "overlays" = the filter chain of buildFilters, "scalePad" =
\* the -vf of a slide clip, "copy" = -c copy
Exec(file, inputs, filters, res) ==
    CallWith("exec", file, [inputs |-> inputs, filters |-> filters], res)

\* exec can only succeed when the files it reads exist
ExecPossible(res, inputs) == res = "ok" => inputs \subseteq fsFiles

FFIdle == ffPc \in {"idle", "done", "failed"}

FFExecuting == ffPc \in {"execMain", "execMainD", "execClip", "execConcat"}

\* exportVideo lines 141-149: entry of the try block up to the first writeFile
BeginProcessing(log, cb) == Emit(log, cb, "processing", 0)

\* initialize lines 116-122
InitDone(log, cb) == Emit(log, cb, "loading", 100)

\* exportVideo lines 163-174 with exportMainVideo 191-204 /
\* exportVideoWithDisclaimers 235-244: up to the exec of the main render
BeginRender(log, cb) ==
    Emit(Emit(log, cb, "processing", 10), cb, "rendering", 20)

\* lines 206-210 / 294-298
BeginFinalize(log, cb) == Emit(log, cb, "finalizing", 95)

\* lines 215-221 / 303-309
EndFinalize(log, cb) == Emit(log, cb, "finalizing", 100)

\* ---- exportVideo(video, subtitles, watermarks, disclaimers, quality, onProgress)
FFExportVideo(nW, nD) ==
    /\ FFIdle
    /\ ffExport < MaxExports
    /\ ffExport' = ffExport + 1
    /\ ffIn' = [nWm |-> nW, nDisc |-> nD]
    /\ ffIdx' = 0
    /\ ffCalls' = <<>>
    /\ ffHooks' = 0
    /\ ffArtifact' = 0
    /\ IF ffmpeg = "null" \/ ~isLoaded
       THEN \* initialize lines 50-92: isLoaded is false here
            /\ ffmpeg' = "inst"
            /\ hookCb' = ffExport + 1
            /\ ffEvents' = Emit(Emit(<<>>, ffExport + 1, "loading", 10),
                                ffExport + 1, "loading", 30)
            /\ ffPc' = "loadPrimary"
       ELSE /\ ffEvents' = BeginProcessing(<<>>, ffExport + 1)
            /\ ffPc' = "writeInput"
            /\ UNCHANGED <<ffmpeg, hookCb>>
    /\ UNCHANGED <<isLoaded, fsFiles, outputOwner>>

\* a primary load that marks the manager loaded before its outcome is known
FFLoadPrimaryMarksEarly(ok) ==
    /\ ffPc = "loadPrimary"
    /\ isLoaded' = TRUE
    /\ IF ok
       THEN /\ ffEvents' = BeginProcessing(InitDone(ffEvents, ffExport), ffExport)
            /\ ffPc' = "writeInput"
       ELSE /\ ffEvents' = Emit(ffEvents, ffExport, "loading", 50)
            /\ ffPc' = "loadAlt"
    /\ UNCHANGED <<ffmpeg, hookCb, ffExport, ffIn, ffIdx, ffCalls, ffHooks,
                   fsFiles, outputOwner, ffArtifact>>

\* initialize lines 85-100: await this.ffmpeg.load(...) from the primary location
FFLoadPrimary(ok) ==
    /\ ffPc = "loadPrimary"
    /\ IF ok
       THEN /\ isLoaded' = TRUE
            /\ ffEvents' = BeginProcessing(InitDone(ffEvents, ffExport), ffExport)
            /\ ffPc' = "writeInput"
       ELSE /\ ffEvents' = Emit(ffEvents, ffExport, "loading", 50)
            /\ ffPc' = "loadAlt"
            /\ UNCHANGED isLoaded
    /\ UNCHANGED <<ffmpeg, hookCb, ffExport, ffIn, ffIdx, ffCalls, ffHooks,
                   fsFiles, outputOwner, ffArtifact>>

\* initialize lines 103-122: the alternate location
FFLoadAlt(ok) ==
    /\ ffPc = "loadAlt"
    /\ IF ok
       THEN /\ isLoaded' = TRUE
            /\ ffEvents' = BeginProcessing(InitDone(ffEvents, ffExport), ffExport)
            /\ ffPc' = "writeInput"
       ELSE /\ ffPc' = "failed"
            /\ UNCHANGED <<isLoaded, ffEvents>>
    /\ UNCHANGED <<ffmpeg, hookCb, ffExport, ffIn, ffIdx, ffCalls, ffHooks,
                   fsFiles, outputOwner, ffArtifact>>

\* position after the input files are written (lines 152-174)
AfterWrite(stage) ==
    CASE stage = "input" ->
             IF ffIn.nWm > 0 THEN "writeWm"
             ELSE IF ffIn.nDisc > 0 THEN "writeDisc" ELSE "render"
      [] stage = "wm" ->
             IF ffIdx + 1 < ffIn.nWm THEN "writeWm"
             ELSE IF ffIn.nDisc > 0 THEN "writeDisc" ELSE "render"
      [] stage = "disc" ->
             IF ffIdx + 1 < ffIn.nDisc THEN "writeDisc" ELSE "render"

\* the write stage stage completed with outcome res, for the file f
FFWriteStep(stage, f, res) ==
    /\ ffCalls' = Append(ffCalls, Call("writeFile", f, res))
    /\ IF res = "throw"
       THEN /\ ffPc' = "failed"
            /\ UNCHANGED <<fsFiles, ffIdx, ffEvents>>
       ELSE /\ fsFiles' = fsFiles \cup {f}
            /\ LET nxt == AfterWrite(stage) IN
               /\ ffIdx' = IF nxt = (IF stage = "wm" THEN "writeWm" ELSE "writeDisc")
                              /\ stage # "input"
                           THEN ffIdx + 1 ELSE 0
               /\ IF nxt = "render"
                  THEN /\ ffEvents' = BeginRender(ffEvents, ffExport)
                       /\ ffPc' = IF ffIn.nDisc > 0 THEN "execMainD" ELSE "execMain"
                  ELSE /\ ffPc' = nxt
                       /\ UNCHANGED ffEvents
    /\ UNCHANGED <<ffmpeg, isLoaded, hookCb, ffExport, ffIn, ffHooks,
                   outputOwner, ffArtifact>>

\* line 149
FFWriteInput(res) ==
    /\ ffPc = "writeInput"
    /\ FFWriteStep("input", FInput, res)

\* lines 152-155
FFWriteWm(res) ==
    /\ ffPc = "writeWm"
    /\ FFWriteStep("wm", FWatermark(ffIdx), res)

\* lines 158-161
FFWriteDisc(res) ==
    /\ ffPc = "writeDisc"
    /\ FFWriteStep("disc", FDisclaimer(ffIdx), res)

\* files the main render command reads (buildFFmpegCommand lines 428-434)
MainInputs == {FInput} \cup {FWatermark(i) : i \in 0..(ffIn.nWm - 1)}

\* exportMainVideo lines 204-213
FFExecMain(res) ==
    /\ ffPc = "execMain"
    /\ ExecPossible(res, MainInputs)
    /\ ffCalls' = Append(ffCalls, Exec(FOutput, MainInputs, "overlays", res))
    /\ IF res = "throw"
       THEN /\ ffPc' = "failed"
            /\ UNCHANGED <<fsFiles, outputOwner, ffEvents>>
       ELSE /\ fsFiles' = IF res = "ok" THEN fsFiles \cup {FOutput} ELSE fsFiles
            /\ outputOwner' = IF res = "ok" THEN ffExport ELSE outputOwner
            /\ ffEvents' = BeginFinalize(ffEvents, ffExport)
            /\ ffPc' = "readOut"
    /\ UNCHANGED <<ffmpeg, isLoaded, hookCb, ffExport, ffIn, ffIdx, ffHooks, ffArtifact>>

\* exportVideoWithDisclaimers lines 244-250
FFExecMainD(res) ==
    /\ ffPc = "execMainD"
    /\ ExecPossible(res, MainInputs)
    /\ ffCalls' = Append(ffCalls, Exec(FMainOutput, MainInputs, "overlays", res))
    /\ IF res = "throw"
       THEN /\ ffPc' = "failed"
            /\ UNCHANGED <<fsFiles, ffEvents, ffIdx>>
       ELSE /\ fsFiles' = IF res = "ok" THEN fsFiles \cup {FMainOutput} ELSE fsFiles
            /\ ffEvents' = Emit(ffEvents, ffExport, "rendering", 50)
            /\ ffIdx' = 0
            /\ ffPc' = "execClip"
    /\ UNCHANGED <<ffmpeg, isLoaded, hookCb, ffExport, ffIn, ffHooks,
                   outputOwner, ffArtifact>>

\* exportVideoWithDisclaimers lines 254-278: clip of slide ffIdx
FFExecClip(res) ==
    /\ ffPc = "execClip"
    /\ ExecPossible(res, {FDisclaimer(ffIdx)})
    /\ ffCalls' = Append(ffCalls, Exec(FDisclaimerVideo(ffIdx), {FDisclaimer(ffIdx)},
                                        "scalePad", res))
    /\ IF res = "throw"
       THEN /\ ffPc' = "failed"
            /\ UNCHANGED <<fsFiles, ffEvents, ffIdx>>
       ELSE /\ fsFiles' = IF res = "ok" THEN fsFiles \cup {FDisclaimerVideo(ffIdx)}
                          ELSE fsFiles
            /\ IF ffIdx + 1 < ffIn.nDisc
               THEN /\ ffIdx' = ffIdx + 1
                    /\ ffPc' = "execClip"
                    /\ UNCHANGED ffEvents
               ELSE /\ ffIdx' = 0
                    /\ ffEvents' = Emit(ffEvents, ffExport, "rendering", 80)
                    /\ ffPc' = "writeConcat"
    /\ UNCHANGED <<ffmpeg, isLoaded, hookCb, ffExport, ffIn, ffHooks,
                   outputOwner, ffArtifact>>

\* lines 252-278: disclaimerInputs, the outputName pushed by every iteration of
\* the loop whose exec returned
DisclaimerInputs ==
    LET clips == SelectSeq(ffCalls, LAMBDA c : /\ c.op = "exec"
                                              /\ c.file[1] = "disclaimer_video"
                                              /\ c.res # "throw")
    IN  [i \in 1..Len(clips) |-> clips[i].file]

\* line 281: fileList
FileList == <<FMainOutput>> \o DisclaimerInputs

\* lines 281-283: the manifest lists main_output.mp4 then the clips
ConcatInputs == {FConcatList, FMainOutput}
                  \cup {FDisclaimerVideo(i) : i \in 0..(ffIn.nDisc - 1)}

FFWriteConcat(res) ==
    /\ ffPc = "writeConcat"
    /\ ffCalls' = Append(ffCalls, CallWith("writeFile", FConcatList, FileList, res))
    /\ IF res = "throw"
       THEN /\ ffPc' = "failed"
            /\ UNCHANGED fsFiles
       ELSE /\ fsFiles' = fsFiles \cup {FConcatList}
            /\ ffPc' = "execConcat"
    /\ UNCHANGED <<ffmpeg, isLoaded, hookCb, ffExport, ffIn, ffIdx, ffEvents,
                   ffHooks, outputOwner, ffArtifact>>

\* lines 286-298
FFExecConcat(res) ==
    /\ ffPc = "execConcat"
    /\ ExecPossible(res, ConcatInputs)
    /\ ffCalls' = Append(ffCalls, Exec(FOutput, {FConcatList}, "copy", res))
    /\ IF res = "throw"
       THEN /\ ffPc' = "failed"
            /\ UNCHANGED <<fsFiles, outputOwner, ffEvents>>
       ELSE /\ fsFiles' = IF res = "ok" THEN fsFiles \cup {FOutput} ELSE fsFiles
            /\ outputOwner' = IF res = "ok" THEN ffExport ELSE outputOwner
            /\ ffEvents' = BeginFinalize(ffEvents, ffExport)
            /\ ffPc' = "readOut"
    /\ UNCHANGED <<ffmpeg, isLoaded, hookCb, ffExport, ffIn, ffIdx, ffHooks, ffArtifact>>

\* lines 213-221 / 301-309: readFile('output.mp4') and the return of the Blob
FFReadOut(res) ==
    /\ ffPc = "readOut"
    /\ res = "ok" => FOutput \in fsFiles
    /\ ffCalls' = Append(ffCalls, Call("readFile", FOutput, res))
    /\ IF res = "throw"
       THEN /\ ffPc' = "failed"
            /\ UNCHANGED <<ffEvents, ffArtifact>>
       ELSE /\ ffEvents' = EndFinalize(ffEvents, ffExport)
            /\ ffArtifact' = outputOwner
            /\ ffPc' = "done"
    /\ UNCHANGED <<ffmpeg, isLoaded, hookCb, ffExport, ffIn, ffIdx, ffHooks,
                   fsFiles, outputOwner>>

\* initialize lines 64-77: the engine raises 'progress' while a command runs
FFEngineProgress(p) ==
    /\ FFExecuting
    /\ ffHooks < MaxHookEvents
    /\ ffHooks' = ffHooks + 1
    /\ ffEvents' = HookEmit(ffEvents, p)
    /\ UNCHANGED <<ffmpeg, isLoaded, hookCb, ffPc, ffExport, ffIn, ffIdx,
                   ffCalls, fsFiles, outputOwner, ffArtifact>>

\* files cleanup() deletes (line 481)
CleanupFiles == {FInput, FOutput, FTempMain}

\* cleanup(), lines 477-494; no export calls it, the owner of the manager may
FFCleanup ==
    /\ FFIdle
    /\ ffmpeg = "inst" /\ isLoaded
    /\ fsFiles \cap CleanupFiles # {}
    /\ fsFiles' = fsFiles \ CleanupFiles
    /\ outputOwner' = 0
    /\ UNCHANGED <<ffmpeg, isLoaded, hookCb, ffPc, ffExport, ffIn, ffIdx,
                   ffEvents, ffCalls, ffHooks, ffArtifact>>


\* ==========================================================================
\*              FRAME-CAPTURE BACKEND AND THE EXPORT DIALOG
\* ==========================================================================

\* ------------------------------------------------------------------ bounds
MaxSessions == 2
MaxSubs == 1
MaxFcWm == 1
MaxFcSlides == 1
MaxFrames == 3
FcDuration == 2
MaxSeqSlides == 2

\* the second interval extends past the end of the source
WmIntervals == {[startTime |-> 0, endTime |-> 1],
                [startTime |-> 1, endTime |-> FcDuration + 1]}
SubSpans == {[startTime |-> 0, duration |-> 1]}
SlideDurations == {1, 2}

SeqsUpTo(S, n) == UNION {[1..k -> S] : k \in 0..n}

RECURSIVE SumDuration(_)
\* disclaimers.reduce((sum, d) => sum + d.duration, 0)
SumDuration(ds) ==
    IF ds = <<>> THEN 0 ELSE ds[1].duration + SumDuration(Tail(ds))

\* App.canExport
CanExport(p) == Len(p.subs) > 0 \/ Len(p.wms) > 0 \/ Len(p.discs) > 0

\* onProgress?.({progress, message}) of the session sid
FCEmit(log, sid, p) == Append(log, [sid |-> sid, progress |-> p])

\* setExportProgress reaches the dialog only while the instance that started
\* the session is mounted
Mounted == showExportModal /\ ownerMounted

Shown(p) == IF Mounted THEN p ELSE exportProgress

\* renderVideo lines 272-279, in frame periods: ceil(duration * 25) frames
TotalFrames(p) == p.dur + SumDuration(p.discs)

\* lines 301-302 / 403-404: Math.round(Math.min(frameCount / totalFrames * 100, 100))
FrameProgress(fc, total) ==
    IF fc >= total THEN 100 ELSE (200 * fc + total) \div (2 * total)

\* a mapping that adds the frame percentage to 40 unscaled
MapProgressFullScale(p) ==
    LET c == IF p < 0 THEN 0 ELSE IF p > 100 THEN 100 ELSE p
    IN  40 + c

\* lines 177-183: Math.round(40 + clamp(progress, 0, 100) * 0.5)
MapProgress(p) ==
    LET c == IF p < 0 THEN 0 ELSE IF p > 100 THEN 100 ELSE p
    IN  40 + (c + 1) \div 2

\* drawWatermarksSync line 328
WatermarkActive(w, t) == t >= w.startTime /\ t <= w.endTime

\* drawSubtitles line 442
SubtitleActive(sb, t) == t >= sb.startTime /\ t <= sb.startTime + sb.duration

\* drawWatermarksSync lines 327-347: the draws made, in list order
DrawWatermarksSync(wms, t, loaded) ==
    LET Drawn(op) == WatermarkActive(wms[op[2]], t) /\ op[2] \in loaded
    IN  SelectSeq([i \in 1..Len(wms) |-> <<"watermark", i>>], Drawn)

\* drawSubtitles lines 441-445
DrawSubtitles(subs, t) ==
    LET Drawn(op) == SubtitleActive(subs[op[2]], t)
    IN  SelectSeq([i \in 1..Len(subs) |-> <<"subtitle", i>>], Drawn)

\* renderMainVideoFrame lines 289-298
MainFrameOps(p, t, loaded) ==
    <<<<"video", 0>>>> \o DrawWatermarksSync(p.wms, t, loaded)
                       \o DrawSubtitles(p.subs, t)

\* a slide frame that keeps the watermarks on top
SlideFrameOpsWithOverlay(idx) == <<<<"black", 0>>, <<"slide", idx>>, <<"watermark", 1>>>>

\* img.onload of renderDisclaimerFrame lines 390-400
SlideFrameOps(idx) == <<<<"black", 0>>, <<"slide", idx>>>>

RECURSIVE RenderDisclaimerFrameNoHold(_, _, _)
\* a sequence that moves on at every call, whatever time has elapsed
RenderDisclaimerFrameNoHold(discs, idx, elapsed) ==
    IF idx >= Len(discs)
    THEN [resolved |-> TRUE, idx |-> idx, elapsed |-> elapsed]
    ELSE IF elapsed >= 0
         THEN IF idx + 1 < Len(discs)
              THEN [resolved |-> FALSE, idx |-> idx + 1, elapsed |-> 0]
              ELSE [resolved |-> TRUE, idx |-> idx + 1, elapsed |-> 0]
         ELSE [resolved |-> FALSE, idx |-> idx, elapsed |-> elapsed]

RECURSIVE RenderDisclaimerFrame(_, _, _)
\* renderDisclaimerFrame lines 364-384, up to the image request: the index and
\* elapsed time it ends with, and whether it resolved the render promise
RenderDisclaimerFrame(discs, idx, elapsed) ==
    IF idx >= Len(discs)
    THEN [resolved |-> TRUE, idx |-> idx, elapsed |-> elapsed]
    ELSE IF elapsed >= discs[idx + 1].duration
         THEN IF idx + 1 < Len(discs)
              THEN RenderDisclaimerFrame(discs, idx + 1, 0)
              ELSE [resolved |-> TRUE, idx |-> idx + 1, elapsed |-> 0]
         ELSE [resolved |-> FALSE, idx |-> idx, elapsed |-> elapsed]

\* exportVideo lines 104-121 with addAudioUsingWebAudio lines 218-238
AudioChain(primary, secondary) ==
    IF primary = "tracks"
    THEN [primary |-> primary, secondary |-> "notTried", track |-> TRUE, warned |-> FALSE]
    ELSE IF primary = "throws"
    THEN [primary |-> primary, secondary |-> "notTried", track |-> FALSE, warned |-> TRUE]
    ELSE [primary |-> primary, secondary |-> secondary,
          track |-> (secondary = "tracks"), warned |-> (secondary = "throws")]

PrimaryOutcomes == {"tracks", "unavailable", "noTracks", "throws"}
SecondaryOutcomes == {"tracks", "noTracks", "throws"}
NoAudio == [primary |-> "none", secondary |-> "none", track |-> FALSE, warned |-> FALSE]

\* ---- the ways an action of the session ends.  Each assigns
\*      fcPc, fcEvents, inFlight, fcRecorder, stopPending, videoPaused,
\*      audioPaused and the dialog's isExporting, isComplete, exportProgress,
\*      exportedBlob.

\* the session goes on and waits at pc
TailContinue(pc, evts, vp, ap, rec) ==
    /\ fcPc' = pc
    /\ fcEvents' = evts
    /\ exportProgress' = IF evts = fcEvents THEN exportProgress
                         ELSE Shown(evts[Len(evts)].progress)
    /\ fcRecorder' = rec
    /\ videoPaused' = vp
    /\ audioPaused' = ap
    /\ UNCHANGED <<inFlight, stopPending, isExporting, isComplete, exportedBlob>>

\* exportVideo lines 212-215 and handleExport lines 88-104: the promise rejects
TailReject(evts, vp, ap, rec) ==
    /\ fcPc' = "failed"
    /\ fcEvents' = evts
    /\ inFlight' = inFlight - 1
    /\ fcRecorder' = rec
    /\ videoPaused' = vp
    /\ audioPaused' = ap
    /\ isExporting' = IF Mounted THEN FALSE ELSE isExporting
    /\ exportProgress' = IF Mounted THEN -1 ELSE exportProgress
    /\ UNCHANGED <<stopPending, isComplete, exportedBlob>>

\* exportVideo lines 186-210: renderVideo resolved
TailFinish(evts) ==
    /\ fcPc' = "finalize"
    /\ fcRecorder' = "inactive"
    /\ stopPending' = TRUE
    /\ videoPaused' = TRUE
    /\ audioPaused' = TRUE
    /\ fcEvents' = FCEmit(evts, fcSession, 95)
    /\ exportProgress' = Shown(95)
    /\ UNCHANGED <<inFlight, isExporting, isComplete, exportedBlob>>

\* renderMainVideoFrame lines 285-314 at currentTime t
MainFrame(t, evts, vp, ap) ==
    LET fc == frameCount + 1
        ev == FCEmit(evts, fcSession,
                     MapProgress(FrameProgress(fc, TotalFrames(fcProject))))
    IN  /\ fcTime' = t
        /\ frameCount' = fc
        /\ lastFrame' = MainFrameOps(fcProject, t, fcLoaded)
        /\ IF t >= fcProject.dur
           THEN IF Len(fcProject.discs) > 0
                THEN LET r == RenderDisclaimerFrame(fcProject.discs, 0, 0) IN
                     /\ slideIdx' = r.idx
                     /\ slideElapsed' = r.elapsed
                     /\ IF r.resolved THEN TailFinish(ev)
                        ELSE TailContinue("slideImg", ev, TRUE, ap, fcRecorder)
                ELSE /\ TailFinish(ev)
                     /\ UNCHANGED <<slideIdx, slideElapsed>>
           ELSE /\ TailContinue("render", ev, vp, ap, fcRecorder)
                /\ UNCHANGED <<slideIdx, slideElapsed>>

\* variables of the session no tail assigns
FrameUnchanged == UNCHANGED <<fcTime, frameCount, lastFrame, slideIdx, slideElapsed>>

SetupUnchanged == UNCHANGED <<fcSession, fcProject, showExportModal, ownerMounted>>

\* the recorder dispatches 'error' and the 'stop' that follows it in one task:
\* no user event is handled between the two
UserTurn == ~stopPending \/ fcPc = "finalize"

\* ---- App.handleOpenExport (part_007 lines 322-324; the button, 413-415)
FCOpenExport ==
    /\ UserTurn
    /\ ~showExportModal
    /\ CanExport(fcProject)
    /\ showExportModal' = TRUE
    /\ ownerMounted' = FALSE
    /\ isExporting' = FALSE
    /\ isComplete' = FALSE
    /\ exportProgress' = -1
    /\ exportedBlob' = FALSE
    /\ UNCHANGED <<sessVars, fcProject>>

\* a start control that is never disabled
StartAlwaysEnabled == TRUE

\* ExportModal lines 353-356: disabled={isExporting}
StartEnabled == ~isExporting

\* ExportModal lines 159-161: disabled={isExporting && !isComplete}
XEnabled == ~(isExporting /\ ~isComplete)

\* ExportModal lines 343-349: rendered when !isComplete, disabled={isExporting}
CancelEnabled == ~isComplete /\ ~isExporting

\* ExportModal lines 310, 331-336: rendered when isComplete && exportedBlob
CloseEnabled == isComplete /\ exportedBlob

\* ---- handleExport lines 63-78 with exportVideo lines 47-68
FCHandleExport(hasRecorderApi) ==
    /\ UserTurn
    /\ showExportModal
    /\ ~isComplete
    /\ StartEnabled
    /\ fcSession < MaxSessions
    /\ fcSession' = fcSession + 1
    /\ ownerMounted' = TRUE
    /\ stopPending' = FALSE
    /\ fcEvents' = FCEmit(<<>>, fcSession + 1, 10)
    /\ fcAudio' = NoAudio
    /\ hasAudioTrack' = FALSE
    /\ fcWarnings' = {}
    /\ fcLoaded' = {}
    /\ fcRecorder' = "none"
    /\ videoPaused' = "none"
    /\ audioPaused' = "none"
    /\ fcTime' = 0
    /\ frameCount' = 0
    /\ lastFrame' = <<>>
    /\ slideIdx' = 0
    /\ slideElapsed' = 0
    /\ IF hasRecorderApi
       THEN /\ fcPc' = "loadVideo"
            /\ inFlight' = inFlight + 1
            /\ isExporting' = TRUE
            /\ exportProgress' = 10
       ELSE \* line 53: throws before the first await; handleExport lines 88-104
            /\ fcPc' = "failed"
            /\ isExporting' = FALSE
            /\ exportProgress' = -1
            /\ UNCHANGED inFlight
    /\ UNCHANGED <<isComplete, exportedBlob, showExportModal, fcProject>>

\* ---- exportVideo lines 65-68: loadedmetadata / error of the video element
FCVideoLoaded(ok) ==
    /\ fcPc = "loadVideo"
    /\ IF ok THEN TailContinue("loadAudio", fcEvents, TRUE, audioPaused, fcRecorder)
       ELSE TailReject(fcEvents, "none", audioPaused, fcRecorder)
    /\ UNCHANGED <<fcAudio, hasAudioTrack, fcWarnings, fcLoaded>>
    /\ FrameUnchanged /\ SetupUnchanged

\* ---- exportVideo lines 77-129: the audio element is ready; canvas, audio
\*      acquisition chain, start of the image preload
FCAudioLoaded(ok, primary, secondary) ==
    /\ fcPc = "loadAudio"
    /\ primary \in {"tracks", "throws"} => secondary = "tracks"
    /\ IF ok
       THEN LET a == AudioChain(primary, secondary) IN
            /\ fcAudio' = a
            /\ hasAudioTrack' = a.track
            /\ fcWarnings' = IF a.warned THEN fcWarnings \cup {"audio"} ELSE fcWarnings
            /\ TailContinue("preload",
                            FCEmit(FCEmit(fcEvents, fcSession, 20), fcSession, 30),
                            videoPaused, TRUE, fcRecorder)
       ELSE /\ primary = "tracks"
            /\ TailReject(fcEvents, videoPaused, "none", fcRecorder)
            /\ UNCHANGED <<fcAudio, hasAudioTrack, fcWarnings>>
    /\ UNCHANGED fcLoaded
    /\ FrameUnchanged /\ SetupUnchanged

\* a preload step after which the audio track is attached to the stream that
\* is already being recorded
FCPreloadedLateAudio(loaded, recorderOk) ==
    /\ fcPc = "preload"
    /\ loaded \subseteq 1..Len(fcProject.wms)
    /\ fcLoaded' = loaded
    /\ IF recorderOk
       THEN TailContinue("play", FCEmit(fcEvents, fcSession, 35),
                         videoPaused, audioPaused, "recording")
       ELSE TailReject(FCEmit(fcEvents, fcSession, 35), videoPaused, audioPaused,
                       fcRecorder)
    /\ fcAudio' = NoAudio
    /\ hasAudioTrack' = TRUE
    /\ UNCHANGED fcWarnings
    /\ FrameUnchanged /\ SetupUnchanged

\* ---- exportVideo lines 129-162 with preloadImages: every image settled;
\*      loaded = the watermarks whose image loaded; recorder created and started
FCPreloaded(loaded, recorderOk) ==
    /\ fcPc = "preload"
    /\ loaded \subseteq 1..Len(fcProject.wms)
    /\ fcLoaded' = loaded
    /\ IF recorderOk
       THEN TailContinue("play", FCEmit(fcEvents, fcSession, 35),
                         videoPaused, audioPaused, "recording")
       ELSE TailReject(FCEmit(fcEvents, fcSession, 35), videoPaused, audioPaused,
                       fcRecorder)
    /\ fcAudio' = NoAudio
    /\ UNCHANGED <<hasAudioTrack, fcWarnings>>
    /\ FrameUnchanged /\ SetupUnchanged

\* ---- exportVideo lines 159-184: both play() promises settled, then the
\*      first, synchronous call of renderMainVideoFrame (renderVideo line 316)
FCPlayed(videoOk, audioOk) ==
    /\ fcPc = "play"
    /\ IF videoOk
       THEN MainFrame(0, FCEmit(fcEvents, fcSession, 40), FALSE, ~audioOk)
       ELSE /\ TailReject(fcEvents, videoPaused, ~audioOk, fcRecorder)
            /\ FrameUnchanged
    /\ UNCHANGED <<fcAudio, hasAudioTrack, fcWarnings, fcLoaded>>
    /\ SetupUnchanged

\* ---- requestAnimationFrame(renderMainVideoFrame), renderVideo lines 285-314;
\*      the playback position moved on by adv frame periods
FCFrame(adv) ==
    /\ fcPc = "render"
    /\ adv = 0 => frameCount < MaxFrames
    /\ LET t == IF fcTime + adv > fcProject.dur THEN fcProject.dur ELSE fcTime + adv
       IN  MainFrame(t, fcEvents, videoPaused, audioPaused)
    /\ UNCHANGED <<fcAudio, hasAudioTrack, fcWarnings, fcLoaded>>
    /\ SetupUnchanged

\* ---- img.onload / img.onerror of renderDisclaimerFrame, lines 388-415
FCSlideImage(ok) ==
    /\ fcPc = "slideImg"
    /\ IF ok
       THEN LET fc == frameCount + 1 IN
            /\ frameCount' = fc
            /\ lastFrame' = SlideFrameOps(slideIdx)
            /\ TailContinue("slideTimer",
                   FCEmit(fcEvents, fcSession,
                          MapProgress(FrameProgress(fc, TotalFrames(fcProject)))),
                   videoPaused, audioPaused, fcRecorder)
            /\ UNCHANGED <<slideIdx, slideElapsed>>
       ELSE LET r == RenderDisclaimerFrame(fcProject.discs, slideIdx + 1, 0) IN
            /\ slideIdx' = r.idx
            /\ slideElapsed' = r.elapsed
            /\ IF r.resolved THEN TailFinish(fcEvents)
               ELSE TailContinue("slideImg", fcEvents, videoPaused, audioPaused,
                                 fcRecorder)
            /\ UNCHANGED <<frameCount, lastFrame>>
    /\ UNCHANGED <<fcTime, fcAudio, hasAudioTrack, fcWarnings, fcLoaded>>
    /\ SetupUnchanged

\* ---- setTimeout(() => renderDisclaimerFrame(), 1000 / 25), line 407; the
\*      clock moved on by adv frame periods
FCSlideTimer(adv) ==
    /\ fcPc = "slideTimer"
    /\ adv = 0 => frameCount < MaxFrames
    /\ LET r == RenderDisclaimerFrame(fcProject.discs, slideIdx, slideElapsed + adv) IN
       /\ slideIdx' = r.idx
       /\ slideElapsed' = r.elapsed
       /\ IF r.resolved THEN TailFinish(fcEvents)
          ELSE TailContinue("slideImg", fcEvents, videoPaused, audioPaused, fcRecorder)
    /\ UNCHANGED <<fcTime, frameCount, lastFrame, fcAudio, hasAudioTrack, fcWarnings,
                   fcLoaded>>
    /\ SetupUnchanged

\* a recorder.onstop that resolves without reporting
StopEventsSilent(log, sid) == log

\* recorder.onstop lines 200-203: the progress reported before resolve(blob)
StopEvents(log, sid) == FCEmit(log, sid, 100)

\* ---- recorder.onstop lines 198-205, then handleExport lines 80-86
FCRecorderStop ==
    /\ stopPending
    /\ stopPending' = FALSE
    /\ fcEvents' = StopEvents(fcEvents, fcSession)
    /\ IF fcPc = "finalize"
       THEN /\ fcPc' = "done"
            /\ inFlight' = inFlight - 1
            /\ exportedBlob' = IF Mounted THEN TRUE ELSE exportedBlob
            /\ isComplete' = IF Mounted THEN TRUE ELSE isComplete
            /\ exportProgress' = Shown(100)
       ELSE \* the promise is settled already: resolve() has no effect
            /\ exportProgress' = Shown(100)
            /\ UNCHANGED <<fcPc, inFlight, exportedBlob, isComplete>>
    /\ UNCHANGED <<isExporting, fcRecorder, videoPaused, audioPaused,
                   fcAudio, hasAudioTrack, fcWarnings, fcLoaded>>
    /\ FrameUnchanged /\ SetupUnchanged

\* ---- recorder.onerror lines 207-209, then handleExport lines 88-104; the
\*      recorder fires 'stop' after 'error'
FCRecorderError ==
    /\ fcPc = "finalize"
    /\ stopPending
    /\ TailReject(fcEvents, videoPaused, audioPaused, fcRecorder)
    /\ UNCHANGED <<fcAudio, hasAudioTrack, fcWarnings, fcLoaded>>
    /\ FrameUnchanged /\ SetupUnchanged

\* ---- handleClose lines 123-135
HandleClose(confirmed) ==
    /\ UserTurn
    /\ IF isExporting /\ ~isComplete /\ ~confirmed
       THEN UNCHANGED <<showExportModal, ownerMounted>>
       ELSE showExportModal' = FALSE /\ ownerMounted' = FALSE
    /\ UNCHANGED <<isExporting, isComplete, exportProgress, exportedBlob,
                   sessVars, fcProject>>

FCClickX(confirmed) ==
    /\ showExportModal
    /\ XEnabled
    /\ HandleClose(confirmed)

FCClickCancel(confirmed) ==
    /\ showExportModal
    /\ CancelEnabled
    /\ HandleClose(confirmed)

FCClickClose(confirmed) ==
    /\ showExportModal
    /\ CloseEnabled
    /\ HandleClose(confirmed)

\* ==========================================================================
\*                 PREVIEW PLAYER: THE TIMELINE SEGMENTER
\* ==========================================================================

\* ------------------------------------------------------------------ bounds
SegDuration == 3
MaxSegSlides == 2
SegSlideDurations == {2, 3}
MaxPlayDuration == 5
SegTimes == 0..(SegDuration + MaxSegSlides * 3)

\* VideoPlayer lines 53-54
TotalDuration == videoDuration + SumDuration(disclaimers)

Abs(x) == IF x < 0 THEN -x ELSE x

RECURSIVE FindDisclaimerNoAcc(_, _, _, _)
\* a loop that forgets accumulatedTime += disclaimers[i].duration
FindDisclaimerNoAcc(ds, i, acc, timeAfterVideo) ==
    IF i >= Len(ds) THEN [index |-> -1, start |-> acc]
    ELSE IF timeAfterVideo >= acc /\ timeAfterVideo < acc + ds[i + 1].duration
         THEN [index |-> i, start |-> acc]
         ELSE FindDisclaimerNoAcc(ds, i + 1, acc, timeAfterVideo)

RECURSIVE FindDisclaimer(_, _, _, _)
\* handleDisclaimerDisplay lines 156-169: the loop from index i with
\* accumulatedTime acc; the index selected and its start, or -1
FindDisclaimer(ds, i, acc, timeAfterVideo) ==
    IF i >= Len(ds) THEN [index |-> -1, start |-> acc]
    ELSE IF timeAfterVideo >= acc /\ timeAfterVideo < acc + ds[i + 1].duration
         THEN [index |-> i, start |-> acc]
         ELSE FindDisclaimer(ds, i + 1, acc + ds[i + 1].duration, timeAfterVideo)

\* VideoPlayer lines 143: the time is within the main video
InMainVideo(t) == t <= videoDuration

\* the time synchronisation effect, VideoPlayer lines 138-153, with
\* handleDisclaimerDisplay, lines 156-169, run for timeline.currentTime = t
TimeSync(t) ==
    /\ timelineTime' = t
    /\ IF InMainVideo(t)
       THEN /\ videoTime' = IF Abs(videoTime - t) > 1 THEN t ELSE videoTime
            /\ showingDisclaimer' = -1
            /\ UNCHANGED disclaimerStartTime
       ELSE LET r == FindDisclaimer(disclaimers, 0, 0, t - videoDuration) IN
            /\ showingDisclaimer' = r.index
            /\ disclaimerStartTime' =
                  IF r.index # -1 /\ r.index # showingDisclaimer THEN r.start
                  ELSE disclaimerStartTime
            /\ UNCHANGED videoTime
    /\ UNCHANGED <<videoDuration, disclaimers>>

\* ---- onSeek(t): Timeline lines 72-74, 89-91, the player's range input
\*      (VideoPlayer lines 326-328), then App.handleSeek
SegSeek(t) ==
    /\ t \in 0..TotalDuration
    /\ TimeSync(t)

\* ---- the video plays on; handleTimeUpdate lines 172-177, App.handleTimeUpdate
SegTimeUpdate(adv) ==
    /\ InMainVideo(timelineTime)
    /\ videoTime + adv <= videoDuration
    /\ videoTime' = videoTime + adv
    /\ timelineTime' = videoTime + adv
    /\ showingDisclaimer' = -1
    /\ UNCHANGED <<disclaimerStartTime, videoDuration, disclaimers>>

\* ---- handleEnded lines 188-195: the video element reached its end
SegEnded ==
    /\ videoTime = videoDuration
    /\ InMainVideo(timelineTime)
    /\ IF Len(disclaimers) > 0
       THEN TimeSync(videoDuration + 1)
       ELSE UNCHANGED segVars

\* ==========================================================================
\*                 APP: THE VIDEO, THE SLIDES AND THE TIMELINE
\* ==========================================================================
\* App (part_007), the loadedmetadata handler of VideoPlayer and the slide
\* track of Timeline; times in tenths of a second.

\* handleVideoUpload, part_007 lines 144-162
HandleVideoUpload(duration) ==
    /\ ~hasVideo
    /\ hasVideo' = TRUE
    /\ videoDuration' = duration
    /\ timelineDuration' = duration
    /\ timelineTime' = 0
    /\ metadataPending' = TRUE
    /\ UNCHANGED <<disclaimers, videoTime, showingDisclaimer, disclaimerStartTime>>

\* VideoPlayer.handleLoadedMetadata lines 180-185 with App.handleDurationChange
HandleLoadedMetadata ==
    /\ hasVideo
    /\ metadataPending
    /\ metadataPending' = FALSE
    /\ timelineDuration' = TotalDuration
    /\ UNCHANGED <<hasVideo, segVars>>

\* handleAddDisclaimer, part_007 lines 263-268
HandleAddDisclaimer(d) ==
    /\ hasVideo
    /\ Len(disclaimers) < MaxSegSlides
    /\ disclaimers' = Append(disclaimers, d)
    /\ UNCHANGED <<appVars, videoDuration, timelineTime, videoTime,
                   showingDisclaimer, disclaimerStartTime>>

\* handleUpdateDisclaimer, part_007 lines 270-277
HandleUpdateDisclaimer(i, duration) ==
    /\ hasVideo
    /\ i \in 1..Len(disclaimers)
    /\ disclaimers' = [disclaimers EXCEPT ![i].duration = duration]
    /\ UNCHANGED <<appVars, videoDuration, timelineTime, videoTime,
                   showingDisclaimer, disclaimerStartTime>>

\* handleDeleteDisclaimer, part_007 lines 279-284
HandleDeleteDisclaimer(i) ==
    /\ hasVideo
    /\ i \in 1..Len(disclaimers)
    /\ disclaimers' = [k \in 1..(Len(disclaimers) - 1) |->
                          IF k < i THEN disclaimers[k] ELSE disclaimers[k + 1]]
    /\ UNCHANGED <<appVars, videoDuration, timelineTime, videoTime,
                   showingDisclaimer, disclaimerStartTime>>

\* handleBackToUpload confirmed, part_007 lines 296-318
HandleBackToUpload ==
    /\ hasVideo
    /\ hasVideo' = FALSE
    /\ timelineDuration' = 0
    /\ timelineTime' = 0
    /\ disclaimers' = <<>>
    /\ metadataPending' = FALSE
    /\ UNCHANGED <<videoDuration, videoTime, showingDisclaimer, disclaimerStartTime>>

\* a click on the timeline, Timeline lines 69-75: onSeek(clamp(t, 0, timeline.duration))
TimelineClick(t) ==
    /\ hasVideo
    /\ t \in 0..timelineDuration
    /\ TimeSync(t)
    /\ UNCHANGED appVars

\* Timeline lines 288-291: where the block of slide index (from 0) starts
SlideBlockStart(index) ==
    timelineDuration + SumDuration(SubSeq(disclaimers, 1, index))

InitAppState ==
    /\ hasVideo = FALSE
    /\ timelineDuration = 0
    /\ metadataPending = FALSE

\* ==========================================================================
\*            PURE FUNCTIONS OF THE BUILDERS AND RESOLVERS
\* ==========================================================================

\* ------------------------------------------------------------------ bounds
MaxTextLen == 3

\* the characters buildFilters escapes (lines 325-331) and an ordinary one
Reserved == {"\\", "'", ":", "[", "]", ",", ";"}
Alphabet == Reserved \cup {"a"}

RECURSIVE ReplaceAll(_, _, _)
\* String.prototype.replace(/c/g, r) on a sequence of characters
ReplaceAll(str, c, r) ==
    IF str = <<>> THEN <<>>
    ELSE (IF Head(str) = c THEN r ELSE <<Head(str)>>) \o ReplaceAll(Tail(str), c, r)

\* an escaping that doubles the backslashes last
EscapeTextBackslashLast(str) ==
    ReplaceAll(ReplaceAll(ReplaceAll(ReplaceAll(ReplaceAll(ReplaceAll(ReplaceAll(
        str, "'", <<"\\", "'">>),
             ":", <<"\\", ":">>),
             "[", <<"\\", "[">>),
             "]", <<"\\", "]">>),
             ",", <<"\\", ",">>),
             ";", <<"\\", ";">>),
             "\\", <<"\\", "\\">>)

\* buildFilters lines 324-331: the chain of replace calls, backslash first
EscapeText(str) ==
    ReplaceAll(ReplaceAll(ReplaceAll(ReplaceAll(ReplaceAll(ReplaceAll(ReplaceAll(
        str, "\\", <<"\\", "\\">>),
             "'", <<"\\", "'">>),
             ":", <<"\\", ":">>),
             "[", <<"\\", "[">>),
             "]", <<"\\", "]">>),
             ",", <<"\\", ",">>),
             ";", <<"\\", ";">>)

\* ---- buildFilters lines 324-331 for one subtitle
PureEscape ==
    /\ pureOp = "none"
    /\ pureOp' = "escape"
    /\ pureOut' = [escapedText |-> EscapeText(pureIn.text)]
    /\ UNCHANGED pureIn

\* ------------------------------------------- the filter chain of buildFilters
MaxChainSubs == 9
MaxChainWm == 9

\* labels and stream specifiers of a filter graph
InLabel(i) == <<"in:v", i>>          \* [i:v], video of input i of the command
Subtitled == <<"subtitled", 0>>      \* [subtitled]
WmLabel(i) == <<"wm", i>>            \* [wm<i>]
WmOutLabel(i) == <<"wm_out", i>>     \* [wm_out<i>]

Stage(kind, ins, out) == [kind |-> kind, ins |-> ins, out |-> out]

\* buildFilters lines 322-376: the drawtext filters joined by ',' are one stage
SubtitleStages(nS) ==
    IF nS > 0 THEN <<Stage("drawtext", <<InLabel(0)>>, Subtitled)>> ELSE <<>>

RECURSIVE WatermarkStages(_, _, _)
\* buildFilters lines 379-416: watermarks.forEach from index, the running
\* inputLabel passed on
WatermarkStages(index, nW, inputLabel) ==
    IF index >= nW THEN <<>>
    ELSE <<Stage("scale", <<InLabel(index + 1)>>, WmLabel(index)),
           Stage("overlay", <<inputLabel, WmLabel(index)>>, WmOutLabel(index))>>
         \o WatermarkStages(index + 1, nW, WmOutLabel(index))

\* buildFilters lines 312-420: the stages in the order of the joined string
BuildFilters(nS, nW) ==
    SubtitleStages(nS)
      \o WatermarkStages(0, nW, IF nS > 0 THEN Subtitled ELSE InLabel(0))

\* a command that maps the label after the last one
MapLabelOffByOne(filters, nW) ==
    IF filters = <<>> THEN <<"0", 0>>
    ELSE IF nW > 0 THEN WmOutLabel(nW) ELSE Subtitled

\* buildFFmpegCommand lines 452-465: the stream mapped as output video
MapLabel(filters, nW) ==
    IF filters = <<>> THEN <<"0", 0>>
    ELSE IF nW > 0 THEN WmOutLabel(nW - 1) ELSE Subtitled

\* buildFFmpegCommand lines 422-470: the -i inputs in order and the -map target
BuildFFmpegCommand(filters, nW) ==
    [inputs |-> <<FInput>> \o [i \in 1..nW |-> FWatermark(i - 1)],
     map    |-> MapLabel(filters, nW)]

\* ---- exportMainVideo lines 191-201: buildFilters, then buildFFmpegCommand
PureBuildCommand ==
    /\ pureOp = "none"
    /\ pureOp' = "buildCommand"
    /\ LET filters == BuildFilters(pureIn.subtitles, pureIn.watermarks) IN
       pureOut' = [filters |-> filters,
                   command |-> BuildFFmpegCommand(filters, pureIn.watermarks)]
    /\ UNCHANGED pureIn

\* ------------------------------ getSubtitlePosition of the frame-capture backend
\* style.position values and what String.includes finds in them
Positions == {"custom", "top-left", "top-center", "top-right", "center",
              "bottom-left", "bottom-center", "bottom-right"}
Includes(pos, part) ==
    CASE part = "top"    -> pos \in {"top-left", "top-center", "top-right"}
      [] part = "bottom" -> pos \in {"bottom-left", "bottom-center", "bottom-right"}
      [] part = "left"   -> pos \in {"top-left", "bottom-left"}
      [] part = "right"  -> pos \in {"top-right", "bottom-right"}

\* percentages tried for customX and customY
CustomCoords == {0, 1, 2, 49, 50, 51, 84, 85, 86, 99, 100}

\* canvas sizes [width, height], multiples of 100 so that the divisions are exact
Canvases == {[width |-> 800, height |-> 600], [width |-> 1200, height |-> 700]}

\* JavaScript a || b on numbers: 0 is falsy
OrDefault(a, b) == IF a = 0 THEN b ELSE a

\* getSubtitlePosition lines 572-594
GetSubtitlePosition(style, canvasWidth, canvasHeight) ==
    IF style.position = "custom"
    THEN [x |-> (canvasWidth * OrDefault(style.customX, 50)) \div 100,
          y |-> (canvasHeight * OrDefault(style.customY, 85)) \div 100]
    ELSE [x |-> IF Includes(style.position, "left") THEN 50
                ELSE IF Includes(style.position, "right") THEN canvasWidth - 50
                ELSE canvasWidth \div 2,
          y |-> IF Includes(style.position, "top") THEN 50
                ELSE IF Includes(style.position, "bottom") THEN canvasHeight - 50
                ELSE IF style.position = "center" THEN canvasHeight \div 2
                ELSE canvasHeight - 50]

\* ---- drawSubtitle: the anchor of one caption
PureSubtitlePosition ==
    /\ pureOp = "none"
    /\ pureOp' = "getSubtitlePosition"
    /\ pureOut' = GetSubtitlePosition(pureIn.style, pureIn.canvas.width,
                                      pureIn.canvas.height)
    /\ UNCHANGED pureIn

Max(a, b) == IF a >= b THEN a ELSE b
Min(a, b) == IF a <= b THEN a ELSE b

\* ---- the preview overlays: quantities derived from the display scale factor.
\*      Scale factors are in hundredths (100 = 1.0), lengths in px.

\* display scale factors, around every clamp limit of the overlays
ScalePercents == {10, 50, 69, 70, 71, 74, 75, 76, 79, 80, 81, 100,
                  119, 120, 121, 124, 125, 126, 129, 130, 131, 200, 500}

FontSizes == {10, 16, 40}
BackgroundStyles == {"none", "full-width", "adaptive"}
DisplaySizes == {[width |-> 320, height |-> 180], [width |-> 1280, height |-> 720]}

\* Math.max(lo, Math.min(hi, scaleFactor))
Clamp(lo, hi, scaleFactor) == Max(lo, Min(hi, scaleFactor))

\* Math.round(n / d) for n >= 0, d > 0
Round(n, d) == (2 * n + d) \div (2 * d)

\* getBackgroundStyles, part_001 lines 328-365: the paddings of the caption box
GetBackgroundStyles(backgroundStyle, scaleFactor) ==
    LET conservativeScale == Clamp(70, 130, scaleFactor)
        scaledPadding == [vertical |-> Max(6, Round(12 * conservativeScale, 100)),
                          horizontal |-> Max(8, Round(24 * conservativeScale, 100))]
    IN  CASE backgroundStyle = "none" ->
               [vertical |-> Max(4, Round(6 * conservativeScale, 100)),
                horizontal |-> Max(6, Round(10 * conservativeScale, 100))]
          [] backgroundStyle = "full-width" -> scaledPadding
          [] OTHER ->
               [vertical |-> Max(4, Round(8 * conservativeScale, 100)),
                horizontal |-> Max(8, Round(16 * conservativeScale, 100))]

\* SubtitleOverlay, part_001 lines 394-399
SubtitleOverlay(style, scaleFactor) ==
    LET conservativeScale == Clamp(75, 125, scaleFactor)
    IN  [scaledFontSize |-> Max(12, Round(style.fontSize * conservativeScale, 100)),
         padding |-> GetBackgroundStyles(style.backgroundStyle, scaleFactor)]

\* getPositionStyles for a named position, part_002 lines 717-719
GetPositionStyles(scaleFactor) ==
    LET conservativeScale == Clamp(80, 120, scaleFactor)
    IN  Max(12, Round(20 * conservativeScale, 100))

\* WatermarkOverlay, part_002 lines 858-872: the size limits (0.4 = 2/5, floored) and the margin
WatermarkOverlay(scaleFactor, displaySize) ==
    LET conservativeScale == Clamp(80, 120, scaleFactor)
    IN  [maxWidth |-> Min(3 * conservativeScale, (displaySize.width * 2) \div 5),
         maxHeight |-> Min(2 * conservativeScale, (displaySize.height * 2) \div 5),
         padding |-> GetPositionStyles(scaleFactor)]

PureSubtitleOverlay ==
    /\ pureOp = "none"
    /\ pureOp' = "SubtitleOverlay"
    /\ pureOut' = SubtitleOverlay(pureIn.style, pureIn.scaleFactor)
    /\ UNCHANGED pureIn

PureWatermarkOverlay ==
    /\ pureOp = "none"
    /\ pureOp' = "WatermarkOverlay"
    /\ pureOut' = WatermarkOverlay(pureIn.scaleFactor, pureIn.displaySize)
    /\ UNCHANGED pureIn

\* ---- one frame of the render loop, as a function of the project, the
\*      playback time and the images that loaded (renderMainVideoFrame 285-298)
MaxDrawWm == 2
MaxDrawSubs == 2
DrawSpans == {[startTime |-> 0, duration |-> 1], [startTime |-> 1, duration |-> 1]}

PureMainFrame ==
    /\ pureOp = "none"
    /\ pureOp' = "renderMainVideoFrame"
    /\ pureOut' = [ops |-> MainFrameOps(pureIn.project, pureIn.currentTime,
                                        pureIn.loaded)]
    /\ UNCHANGED pureIn

\* ==========================================================================
\*                           WATERMARK EDITOR
\* ==========================================================================
\* WatermarkEditor.tsx and the watermark handlers of App; times in seconds.

EdDuration == 12
MaxEdWm == 1

\* playback times at which the editor is used
PlaybackTimes == {0, EdDuration \div 2, EdDuration}

\* what the user may type into a number field: <<n>> reads as the number n,
\* <<>> is a text parseFloat cannot read (NaN)
FieldInputs == {<<>>} \cup {<<n>> : n \in {-1, 0, 1, EdDuration, EdDuration + 1}}

\* parseFloat(e.target.value) || d
ParseOr(v, d) == IF v = <<>> THEN d ELSE OrDefault(v[1], d)

\* the form the handlers reset to, lines 156-163, 198-205, 215-221
ResetForm == [startTime |-> currentTime, endTime |-> edVideoDuration]

\* the "add watermark" button, lines 234-245
EdOpen ==
    /\ ~isAdding
    /\ formData' = [startTime |-> currentTime,
                    endTime |-> Max(currentTime + 10, edVideoDuration)]
    /\ isAdding' = TRUE
    /\ UNCHANGED <<editingId, uploadedFile, watermarks, currentTime,
                   edVideoDuration, nextId>>

\* handleFileUpload with a valid image, lines 101-119
HandleFileUpload ==
    /\ isAdding
    /\ uploadedFile' = TRUE
    /\ UNCHANGED <<isAdding, editingId, formData, watermarks, currentTime,
                   edVideoDuration, nextId>>

\* onChange of the start field, lines 435-438
EdSetStartTime(v) ==
    /\ isAdding
    /\ formData' = [formData EXCEPT !.startTime = Max(0, ParseOr(v, 0))]
    /\ UNCHANGED <<isAdding, editingId, uploadedFile, watermarks, currentTime,
                   edVideoDuration, nextId>>

\* onChange of the end field, lines 452-455
EdSetEndTime(v) ==
    /\ isAdding
    /\ formData' = [formData EXCEPT
                      !.endTime = Min(edVideoDuration, ParseOr(v, edVideoDuration))]
    /\ UNCHANGED <<isAdding, editingId, uploadedFile, watermarks, currentTime,
                   edVideoDuration, nextId>>

\* handleAdd, lines 138-167, and handleAddWatermark of App
HandleAdd ==
    /\ isAdding
    /\ editingId = 0
    /\ uploadedFile
    /\ nextId <= MaxEdWm
    /\ watermarks' = watermarks \cup
                       {[id |-> nextId, startTime |-> formData.startTime,
                         endTime |-> formData.endTime]}
    /\ nextId' = nextId + 1
    /\ uploadedFile' = FALSE
    /\ formData' = ResetForm
    /\ isAdding' = FALSE
    /\ UNCHANGED <<editingId, currentTime, edVideoDuration>>

\* handleEdit, lines 170-181
HandleEdit(w) ==
    /\ w \in watermarks
    /\ formData' = [startTime |-> w.startTime, endTime |-> w.endTime]
    /\ editingId' = w.id
    /\ isAdding' = TRUE
    /\ UNCHANGED <<uploadedFile, watermarks, currentTime, edVideoDuration, nextId>>

\* handleUpdate, lines 184-208, and handleUpdateWatermark of App
HandleUpdate ==
    /\ isAdding
    /\ editingId # 0
    /\ watermarks' = {IF w.id = editingId
                      THEN [w EXCEPT !.startTime = formData.startTime,
                                     !.endTime = formData.endTime]
                      ELSE w : w \in watermarks}
    /\ editingId' = 0
    /\ isAdding' = FALSE
    /\ uploadedFile' = FALSE
    /\ formData' = ResetForm
    /\ UNCHANGED <<currentTime, edVideoDuration, nextId>>

\* handleCancel, lines 211-224
HandleCancel ==
    /\ isAdding
    /\ isAdding' = FALSE
    /\ editingId' = 0
    /\ uploadedFile' = FALSE
    /\ formData' = ResetForm
    /\ UNCHANGED <<watermarks, currentTime, edVideoDuration, nextId>>

\* the delete button of the list, lines 522-529, and handleDeleteWatermark
HandleDeleteWatermark(w) ==
    /\ w \in watermarks
    /\ watermarks' = watermarks \ {w}
    /\ UNCHANGED <<isAdding, editingId, uploadedFile, formData, currentTime,
                   edVideoDuration, nextId>>

\* playback or a seek moves the currentTime prop
EdTimeChange(t) ==
    /\ t # currentTime
    /\ currentTime' = t
    /\ UNCHANGED <<isAdding, editingId, uploadedFile, formData, watermarks,
                   edVideoDuration, nextId>>

\* the state of the editor when mounted at playback time t, lines 46-57
InitEdAt(t) ==
    /\ isAdding = FALSE
    /\ editingId = 0
    /\ uploadedFile = FALSE
    /\ currentTime = t
    /\ edVideoDuration = EdDuration
    /\ formData = [startTime |-> t, endTime |-> EdDuration]
    /\ watermarks = {}
    /\ nextId = 1

InitEdState == InitEdAt(0)

InitPureState ==
    /\ pureOp = "none"
    /\ pureIn = <<>>
    /\ pureOut = <<>>

\* ---- initial states and next-state relations

InitFFState ==
    /\ ffmpeg = "null"
    /\ isLoaded = FALSE
    /\ hookCb = 0
    /\ ffPc = "idle"
    /\ ffExport = 0
    /\ ffIn = [nWm |-> 0, nDisc |-> 0]
    /\ ffIdx = 0
    /\ ffEvents = <<>>
    /\ ffCalls = <<>>
    /\ ffHooks = 0
    /\ fsFiles = {}
    /\ outputOwner = 0
    /\ ffArtifact = 0

Projects ==
    [dur : {FcDuration}, wms : SeqsUpTo(WmIntervals, MaxFcWm),
     subs : SeqsUpTo(SubSpans, MaxSubs), discs : SeqsUpTo([duration : SlideDurations], MaxFcSlides)]

InitFCState ==
    /\ showExportModal = FALSE
    /\ ownerMounted = FALSE
    /\ isExporting = FALSE
    /\ isComplete = FALSE
    /\ exportProgress = -1
    /\ exportedBlob = FALSE
    /\ fcPc = "idle"
    /\ fcSession = 0
    /\ inFlight = 0
    /\ fcEvents = <<>>
    /\ fcAudio = NoAudio
    /\ hasAudioTrack = FALSE
    /\ fcWarnings = {}
    /\ fcLoaded = {}
    /\ fcRecorder = "none"
    /\ videoPaused = "none"
    /\ audioPaused = "none"
    /\ stopPending = FALSE
    /\ fcTime = 0
    /\ frameCount = 0
    /\ lastFrame = <<>>
    /\ slideIdx = 0
    /\ slideElapsed = 0

EmptyProject == [dur |-> FcDuration, wms |-> <<>>, subs |-> <<>>, discs |-> <<>>]

InitSegState ==
    /\ videoDuration = SegDuration
    /\ timelineTime = 0
    /\ videoTime = 0
    /\ showingDisclaimer = -1
    /\ disclaimerStartTime = 0

\* ---- the filter-graph backend alone
InitFF ==
    /\ backend = "ff"
    /\ InitFFState
    /\ InitFCState
    /\ InitEdState
    /\ InitAppState
    /\ InitPureState
    /\ fcProject = EmptyProject
    /\ InitSegState
    /\ disclaimers = <<>>

\* a step of the filter-graph manager: nothing else moves
FFStep(A) == backend = "ff" /\ A /\ UNCHANGED <<backend, fcVars, segVars, pureVars, edVars, appVars>>

NextFFOnly ==
    \/ \E nW \in 0..MaxWm, nD \in 0..MaxSlides:
          FFStep(FFExportVideo(nW, nD))
    \/ \E ok \in BOOLEAN:
          FFStep(FFLoadPrimary(ok))
    \/ \E ok \in BOOLEAN:
          FFStep(FFLoadAlt(ok))
    \/ \E res \in IoOutcomes:
          FFStep(FFWriteInput(res))
    \/ \E res \in IoOutcomes:
          FFStep(FFWriteWm(res))
    \/ \E res \in IoOutcomes:
          FFStep(FFWriteDisc(res))
    \/ \E res \in ExecOutcomes:
          FFStep(FFExecMain(res))
    \/ \E res \in ExecOutcomes:
          FFStep(FFExecMainD(res))
    \/ \E res \in ExecOutcomes:
          FFStep(FFExecClip(res))
    \/ \E res \in IoOutcomes:
          FFStep(FFWriteConcat(res))
    \/ \E res \in ExecOutcomes:
          FFStep(FFExecConcat(res))
    \/ \E res \in IoOutcomes:
          FFStep(FFReadOut(res))
    \/ \E p \in HookPercents:
          FFStep(FFEngineProgress(p))
    \/ FFStep(FFCleanup)

SpecFF == InitFF /\ [][NextFFOnly]_vars

\* ---- the filter-graph backend on projects that end with trailer slides
\*      (exportVideo line 172 takes exportVideoWithDisclaimers)
NextConcat ==
    \/ \E nD \in 1..MaxConcatSlides:
          FFStep(FFExportVideo(0, nD))
    \/ \E ok \in BOOLEAN:
          FFStep(FFLoadPrimary(ok))
    \/ \E ok \in BOOLEAN:
          FFStep(FFLoadAlt(ok))
    \/ \E res \in IoOutcomes:
          FFStep(FFWriteInput(res))
    \/ \E res \in IoOutcomes:
          FFStep(FFWriteDisc(res))
    \/ \E res \in ExecOutcomes:
          FFStep(FFExecMainD(res))
    \/ \E res \in ExecOutcomes:
          FFStep(FFExecClip(res))
    \/ \E res \in IoOutcomes:
          FFStep(FFWriteConcat(res))
    \/ \E res \in ExecOutcomes:
          FFStep(FFExecConcat(res))
    \/ \E res \in IoOutcomes:
          FFStep(FFReadOut(res))
    \/ \E p \in HookPercents:
          FFStep(FFEngineProgress(p))
    \/ FFStep(FFCleanup)

SpecConcat == InitFF /\ [][NextConcat]_vars

\* ---- the frame-capture backend and its dialog alone
InitFC ==
    /\ backend = "fc"
    /\ InitFFState
    /\ InitFCState
    /\ InitEdState
    /\ InitAppState
    /\ InitPureState
    /\ fcProject \in Projects
    /\ InitSegState
    /\ disclaimers = <<>>

\* a step of the dialog or of the frame-capture session: nothing else moves
FCStep(A) == backend = "fc" /\ A /\ UNCHANGED <<backend, ffVars, segVars, pureVars, edVars, appVars>>

NextFCOnly ==
    \/ FCStep(FCOpenExport)
    \/ \E api \in BOOLEAN:
          FCStep(FCHandleExport(api))
    \/ \E ok \in BOOLEAN:
          FCStep(FCVideoLoaded(ok))
    \/ \E ok \in BOOLEAN, a \in PrimaryOutcomes, b \in SecondaryOutcomes:
          FCStep(FCAudioLoaded(ok, a, b))
    \/ \E l \in SUBSET (1..MaxFcWm), ok \in BOOLEAN:
          FCStep(FCPreloaded(l, ok))
    \/ \E v \in BOOLEAN, a \in BOOLEAN:
          FCStep(FCPlayed(v, a))
    \/ \E adv \in 0..2:
          FCStep(FCFrame(adv))
    \/ \E ok \in BOOLEAN:
          FCStep(FCSlideImage(ok))
    \/ \E adv \in 0..1:
          FCStep(FCSlideTimer(adv))
    \/ FCStep(FCRecorderStop)
    \/ FCStep(FCRecorderError)
    \/ \E c \in BOOLEAN:
          FCStep(FCClickX(c))
    \/ \E c \in BOOLEAN:
          FCStep(FCClickCancel(c))
    \/ \E c \in BOOLEAN:
          FCStep(FCClickClose(c))

SpecFC == InitFC /\ [][NextFCOnly]_vars

\* ---- the frame-capture backend on projects that end with trailer slides,
\*      with the callbacks of the slide sequence eventually firing
SlideProjects ==
    [dur : {FcDuration}, wms : {<<>>}, subs : {<<>>},
     discs : SeqsUpTo([duration : SlideDurations], MaxSeqSlides) \ {<<>>}]

InitSlides ==
    /\ backend = "fc"
    /\ InitFFState
    /\ InitFCState
    /\ InitEdState
    /\ InitAppState
    /\ InitPureState
    /\ fcProject \in SlideProjects
    /\ InitSegState
    /\ disclaimers = <<>>

\* img.onload / img.onerror and the frame timer of the sequence fire
SlideCallbacksFire ==
    /\ WF_vars(\E ok \in BOOLEAN : FCStep(FCSlideImage(ok)))
    /\ WF_vars(\E adv \in 0..1 : FCStep(FCSlideTimer(adv)))

SpecSlides == InitSlides /\ [][NextFCOnly]_vars /\ SlideCallbacksFire

\* ---- either backend
InitExport == InitFF \/ InitFC

NextExport ==
    \/ NextFFOnly
    \/ NextFCOnly

SpecExport == InitExport /\ [][NextExport]_vars

\* ---- the preview player alone
InitSeg ==
    /\ backend = "seg"
    /\ InitFFState
    /\ InitFCState
    /\ InitEdState
    /\ InitAppState
    /\ InitPureState
    /\ fcProject = EmptyProject
    /\ InitSegState
    /\ disclaimers \in SeqsUpTo([duration : SegSlideDurations], MaxSegSlides)

\* a step of the preview player: nothing else moves
SegStep(A) == backend = "seg" /\ A /\ UNCHANGED <<backend, ffVars, fcVars, pureVars, edVars, appVars>>

NextSegOnly ==
    \/ \E t \in SegTimes:
          SegStep(SegSeek(t))
    \/ \E adv \in 1..2:
          SegStep(SegTimeUpdate(adv))
    \/ SegStep(SegEnded)

SpecSeg == InitSeg /\ [][NextSegOnly]_vars

\* ---- the preview player on Scenario B: a 10 s source followed by slides of
\*      3 s and 4 s, in tenths of a second
ScenarioB == [duration |-> 100, slides |-> <<[duration |-> 30], [duration |-> 40]>>]

InitScenarioB ==
    /\ backend = "seg"
    /\ InitFFState
    /\ InitFCState
    /\ InitEdState
    /\ InitAppState
    /\ InitPureState
    /\ fcProject = EmptyProject
    /\ videoDuration = ScenarioB.duration
    /\ timelineTime = 0
    /\ videoTime = 0
    /\ showingDisclaimer = -1
    /\ disclaimerStartTime = 0
    /\ disclaimers = ScenarioB.slides

NextScenarioB ==
    \/ \E t \in 0..(ScenarioB.duration + SumDuration(ScenarioB.slides)):
          SegStep(SegSeek(t))
    \/ \E adv \in 1..2:
          SegStep(SegTimeUpdate(adv))
    \/ SegStep(SegEnded)

SpecScenarioB == InitScenarioB /\ [][NextScenarioB]_vars

\* ---- the caption-text escaping alone
InitEscape ==
    /\ backend = "pure"
    /\ InitFFState
    /\ InitFCState
    /\ InitEdState
    /\ InitAppState
    /\ fcProject = EmptyProject
    /\ InitSegState
    /\ disclaimers = <<>>
    /\ pureOp = "none"
    /\ pureIn \in [text : SeqsUpTo(Alphabet, MaxTextLen)]
    /\ pureOut = <<>>

\* a step of a pure function: nothing else moves
PureStep(A) == backend = "pure" /\ A /\ UNCHANGED <<backend, ffVars, fcVars, segVars, edVars, appVars>>

NextEscape == PureStep(PureEscape)

SpecEscape == InitEscape /\ [][NextEscape]_vars

\* ---- the filter chain and the command built around it
InitChain ==
    /\ backend = "pure"
    /\ InitFFState
    /\ InitFCState
    /\ InitEdState
    /\ InitAppState
    /\ fcProject = EmptyProject
    /\ InitSegState
    /\ disclaimers = <<>>
    /\ pureOp = "none"
    /\ pureIn \in [subtitles : 0..MaxChainSubs, watermarks : 0..MaxChainWm]
    /\ pureOut = <<>>

NextChain == PureStep(PureBuildCommand)

SpecChain == InitChain /\ [][NextChain]_vars

\* ---- the caption position resolver alone
InitPosition ==
    /\ backend = "pure"
    /\ InitFFState
    /\ InitFCState
    /\ InitEdState
    /\ InitAppState
    /\ fcProject = EmptyProject
    /\ InitSegState
    /\ disclaimers = <<>>
    /\ pureOp = "none"
    /\ pureIn \in [style : [position : Positions, customX : CustomCoords,
                            customY : CustomCoords],
                   canvas : Canvases]
    /\ pureOut = <<>>

NextPosition == PureStep(PureSubtitlePosition)

SpecPosition == InitPosition /\ [][NextPosition]_vars

\* ---- the preview overlays alone
InitScale ==
    /\ backend = "pure"
    /\ InitFFState
    /\ InitFCState
    /\ InitEdState
    /\ InitAppState
    /\ fcProject = EmptyProject
    /\ InitSegState
    /\ disclaimers = <<>>
    /\ pureOp = "none"
    /\ pureIn \in [scaleFactor : ScalePercents,
                   style : [fontSize : FontSizes, backgroundStyle : BackgroundStyles],
                   displaySize : DisplaySizes]
    /\ pureOut = <<>>

NextScale ==
    \/ PureStep(PureSubtitleOverlay)
    \/ PureStep(PureWatermarkOverlay)

SpecScale == InitScale /\ [][NextScale]_vars

\* ---- one frame of the render loop alone
InitDraw ==
    /\ backend = "pure"
    /\ InitFFState
    /\ InitFCState
    /\ InitEdState
    /\ InitAppState
    /\ fcProject = EmptyProject
    /\ InitSegState
    /\ disclaimers = <<>>
    /\ pureOp = "none"
    /\ \E wms \in SeqsUpTo(WmIntervals, MaxDrawWm),
          subs \in SeqsUpTo(DrawSpans, MaxDrawSubs),
          t \in 0..FcDuration :
          \E loaded \in SUBSET (1..Len(wms)) :
             pureIn = [project |-> [dur |-> FcDuration, wms |-> wms, subs |-> subs,
                                    discs |-> <<>>],
                       currentTime |-> t, loaded |-> loaded]
    /\ pureOut = <<>>

NextDraw == PureStep(PureMainFrame)

SpecDraw == InitDraw /\ [][NextDraw]_vars

\* ---- the project's video, slides and timeline alone
InitTimeline ==
    /\ backend = "app"
    /\ InitFFState
    /\ InitFCState
    /\ fcProject = EmptyProject
    /\ InitEdState
    /\ InitPureState
    /\ InitAppState
    /\ videoDuration = 0
    /\ timelineTime = 0
    /\ videoTime = 0
    /\ showingDisclaimer = -1
    /\ disclaimerStartTime = 0
    /\ disclaimers = <<>>

AppStep(A) == backend = "app" /\ A /\ UNCHANGED <<backend, ffVars, fcVars, pureVars, edVars>>

NextTimeline ==
    \/ AppStep(HandleVideoUpload(SegDuration))
    \/ AppStep(HandleLoadedMetadata)
    \/ \E d \in [duration : SegSlideDurations] :
          AppStep(HandleAddDisclaimer(d))
    \/ \E i \in 1..MaxSegSlides, d \in SegSlideDurations :
          AppStep(HandleUpdateDisclaimer(i, d))
    \/ \E i \in 1..MaxSegSlides :
          AppStep(HandleDeleteDisclaimer(i))
    \/ AppStep(HandleBackToUpload)
    \/ \E t \in SegTimes :
          AppStep(TimelineClick(t))

SpecTimeline == InitTimeline /\ [][NextTimeline]_vars

\* ---- preview playback left alone: the playhead was put somewhere in the base
\*      clip of a project with at least one slide and play was pressed; from
\*      then on only the video element's events happen
InitPlayback ==
    /\ backend = "seg"
    /\ InitFFState
    /\ InitFCState
    /\ InitEdState
    /\ InitAppState
    /\ InitPureState
    /\ fcProject = EmptyProject
    /\ videoDuration \in 1..MaxPlayDuration
    /\ timelineTime \in 0..videoDuration
    /\ videoTime = timelineTime
    /\ showingDisclaimer = -1
    /\ disclaimerStartTime = 0
    /\ disclaimers \in SeqsUpTo([duration : SegSlideDurations], MaxSegSlides)
    /\ Len(disclaimers) > 0

NextPlayback ==
    \/ \E adv \in 1..2:
          SegStep(SegTimeUpdate(adv))
    \/ SegStep(SegEnded)

\* the playing video element keeps raising timeupdate and, at its end, ended
MediaEventsFire ==
    /\ WF_vars(\E adv \in 1..2 : SegStep(SegTimeUpdate(adv)))
    /\ WF_vars(SegStep(SegEnded))

SpecPlayback == InitPlayback /\ [][NextPlayback]_vars /\ MediaEventsFire

\* ---- the watermark editor alone
InitEditor ==
    /\ backend = "editor"
    /\ InitFFState
    /\ InitFCState
    /\ fcProject = EmptyProject
    /\ InitSegState
    /\ disclaimers = <<>>
    /\ InitPureState
    /\ \E t \in PlaybackTimes : InitEdAt(t)
    /\ InitAppState

EdStep(A) == backend = "editor" /\ A /\ UNCHANGED <<backend, ffVars, fcVars, segVars, pureVars, appVars>>

NextEditor ==
    \/ EdStep(EdOpen)
    \/ EdStep(HandleFileUpload)
    \/ \E v \in FieldInputs : EdStep(EdSetStartTime(v))
    \/ \E v \in FieldInputs : EdStep(EdSetEndTime(v))
    \/ EdStep(HandleAdd)
    \/ \E w \in watermarks : EdStep(HandleEdit(w))
    \/ EdStep(HandleUpdate)
    \/ EdStep(HandleCancel)
    \/ \E w \in watermarks : EdStep(HandleDeleteWatermark(w))
    \/ \E t \in PlaybackTimes : EdStep(EdTimeChange(t))

SpecEditor == InitEditor /\ [][NextEditor]_vars

\* ==========================================================================
\*                               PROPERTIES
\* ==========================================================================

\* the events of log delivered to the callback cb
EventsOf(log, cb) == SelectSeq(log, LAMBDA e : e.cb = cb)

\* the events of log delivered by the session sid
SessionEvents(log, sid) == SelectSeq(log, LAMBDA e : e.sid = sid)

Last(q) == q[Len(q)]

\* C1 -- during one filter-graph export the phases of the progress events
\* delivered to the caller never regress in the order
\* loading < processing < rendering < finalizing, the events forwarded from the
\* engine's progress listener included.
C1_PhasesNeverRegress ==
    LET evs == EventsOf(ffEvents, ffExport)
    IN  \A i, j \in 1..Len(evs) :
           i < j => PhaseRank(evs[i].phase) <= PhaseRank(evs[j].phase)

\* C2 -- Failed is absorbing: once the export promise of a session has rejected
\* and handleExport has handled the error, that session delivers no further
\* progress event (in particular no 100 % event) and does not complete.
C2_FailedIsAbsorbing ==
    [][(fcPc = "failed" /\ fcSession' = fcSession)
          => (fcEvents' = fcEvents /\ fcPc' = "failed")]_vars

\* C3 -- when an export has handed its artifact to the caller, the last
\* progress event the session delivered to that caller has percent 100, in
\* both backends.
C3_SuccessEndsAt100 ==
    /\ ffPc = "done" =>
          /\ EventsOf(ffEvents, ffExport) # <<>>
          /\ Last(EventsOf(ffEvents, ffExport)).progress = 100
    /\ fcPc = "done" =>
          /\ SessionEvents(fcEvents, fcSession) # <<>>
          /\ Last(SessionEvents(fcEvents, fcSession)).progress = 100

\* a frame-capture export that rendered frames and handed its Blob to the dialog
C3_Witness ==
    /\ fcPc = "done"
    /\ frameCount > 1
    /\ isComplete /\ exportedBlob
    /\ exportProgress = 100

\* C4 -- in the filter-graph backend a stage that fails is the last stage the
\* export executes and the export rejects: no later stage runs and no artifact
\* is returned.
C4_NoPartialSuccess ==
    \A i \in 1..Len(ffCalls) :
       ffCalls[i].res # "ok" => (i = Len(ffCalls) /\ ffPc = "failed")

\* the watermarks of the running session whose image failed to load
FailedWatermarks ==
    IF fcPc \in {"play", "render", "slideImg", "slideTimer", "finalize", "done"}
    THEN (1..Len(fcProject.wms)) \ fcLoaded ELSE {}

\* the latest frame is a frame of the main video
IsMainFrame == lastFrame # <<>> /\ lastFrame[1] = <<"video", 0>>

\* C5 -- frame-capture backend, one watermark image failed to load: the export
\* that completes has recorded a warning, the watermark is drawn on no frame,
\* and every frame otherwise holds exactly the draws it would hold if every
\* image had loaded.
C5_DegradesWithWarning ==
    Cardinality(FailedWatermarks) = 1 =>
       /\ fcPc = "done" => "watermark" \in fcWarnings
       /\ \A w \in FailedWatermarks :
             \A k \in 1..Len(lastFrame) : lastFrame[k] # <<"watermark", w>>
       /\ IsMainFrame =>
             lastFrame =
                SelectSeq(MainFrameOps(fcProject, fcTime, 1..Len(fcProject.wms)),
                          LAMBDA op : ~(op[1] = "watermark" /\ op[2] \in FailedWatermarks))

\* C6 -- audio acquisition is an ordered fallback: whenever the primary method
\* yields no track (unavailable, no audio tracks, or an error) the secondary
\* method is attempted; if it succeeds the recorded stream has an audio track;
\* if both fail the export goes on video-only with a warning.
C6_AudioFallback ==
    fcAudio.primary \in {"unavailable", "noTracks", "throws"} =>
       /\ fcAudio.secondary \in SecondaryOutcomes
       /\ fcAudio.secondary = "tracks" => hasAudioTrack
       /\ fcAudio.secondary # "tracks" =>
             /\ ~hasAudioTrack
             /\ "audio" \in fcWarnings

\* C7 -- after a filter-graph export has ended, with an artifact or with an
\* error, no file the session wrote remains in the engine's file system.
C7_NoTempFilesRemain ==
    (ffPc \in {"done", "failed"}) => fsFiles = {}

\* C8 -- when a frame-capture export that started its recorder hands the
\* artifact or the error to the caller, the recorder is not recording and both
\* media elements are paused.
C8_HandlesReleased ==
    (fcPc \in {"done", "failed"} /\ fcRecorder # "none") =>
       /\ fcRecorder # "recording"
       /\ videoPaused = TRUE
       /\ audioPaused = TRUE

C10_SegmenterTotality ==
    (0 <= timelineTime /\ timelineTime < TotalDuration) =>
       \/ /\ showingDisclaimer = -1
          /\ timelineTime < videoDuration
       \/ /\ showingDisclaimer \in 0..(Len(disclaimers) - 1)
          /\ LET off == timelineTime - videoDuration - disclaimerStartTime
             IN  0 <= off /\ off < disclaimers[showingDisclaimer + 1].duration

\* time at which slide k starts: video.duration + the durations of the slides before it
Boundary(k) == videoDuration + SumDuration(SubSeq(disclaimers, 1, k))

\* offset of the playhead within the slide the player shows
LocalOffset == timelineTime - videoDuration - disclaimerStartTime

\* C11 -- a time exactly at a segment boundary belongs to the next segment:
\* for every slide index k, k = 0 included, the playhead at
\* video.duration + (durations of the slides before k) shows slide k at local
\* offset 0, never the base clip or slide k - 1.
C11_BoundaryBelongsToNext ==
    \A k \in 0..(Len(disclaimers) - 1) :
       timelineTime = Boundary(k) =>
          /\ showingDisclaimer = k
          /\ LocalOffset = 0

\* C12 -- with at least one slide, the final instant of the timeline,
\* video.duration + the durations of all slides, shows the last slide.
C12_FinalInstantIsLastSlide ==
    (Len(disclaimers) > 0 /\ timelineTime = TotalDuration) =>
       showingDisclaimer = Len(disclaimers) - 1

\* C13 as stated -- Scenario B: time 12.5 shows slide 0 at local offset 0.5 and
\* time 14.0 shows slide 1 at local offset 1.0.
C13_ScenarioBAsStated ==
    /\ timelineTime = 125 => (showingDisclaimer = 0 /\ LocalOffset = 5)
    /\ timelineTime = 140 => (showingDisclaimer = 1 /\ LocalOffset = 10)

\* C13 amended -- Scenario B: time 12.5 shows slide 0 at local offset 2.5 (the
\* slide starts at 10.0) and time 14.0 shows slide 1 at local offset 1.0.
C13_ScenarioB ==
    /\ timelineTime = 125 => (showingDisclaimer = 0 /\ LocalOffset = 25)
    /\ timelineTime = 140 => (showingDisclaimer = 1 /\ LocalOffset = 10)

\* the playhead was moved to 14.0 and the second slide is shown
C13_Witness ==
    /\ videoDuration = 100
    /\ timelineTime = 140
    /\ showingDisclaimer = 1

RECURSIVE Unescape(_)
\* removal of one level of backslash escaping: a backslash is dropped and the
\* character after it is kept as it is
Unescape(str) ==
    IF str = <<>> THEN <<>>
    ELSE IF Head(str) = "\\" /\ Len(str) >= 2
         THEN <<str[2]>> \o Unescape(SubSeq(str, 3, Len(str)))
         ELSE <<Head(str)>> \o Unescape(Tail(str))

RECURSIVE WellEscaped(_)
\* every reserved character is the second character of a backslash pair
WellEscaped(str) ==
    IF str = <<>> THEN TRUE
    ELSE IF Head(str) = "\\"
         THEN Len(str) >= 2 /\ WellEscaped(SubSeq(str, 3, Len(str)))
         ELSE Head(str) \notin Reserved /\ WellEscaped(Tail(str))

\* C14 -- the caption-text escaping of buildFilters is reversible: removing one
\* level of backslash escaping from the escaped text gives the original text,
\* and every reserved character of the escaped text is preceded by its
\* escaping backslash.
C14_EscapeReversible ==
    pureOp = "escape" =>
       /\ Unescape(pureOut.escapedText) = pureIn.text
       /\ WellEscaped(pureOut.escapedText)

\* a text with a backslash, a quote and an ordinary character was escaped
C14_Witness ==
    /\ pureOp = "escape"
    /\ pureIn.text = <<"\\", "'", "a">>
    /\ pureOut.escapedText = <<"\\", "\\", "\\", "'", "a">>

\* the stages before stage j whose output label is l
Producers(filters, l, j) == {k \in 1..(j - 1) : filters[k].out = l}

\* output label of the stage of the caption/overlay chain that precedes stage
\* j, [0:v] when there is none
RunningLabel(filters, j) ==
    LET before == {k \in 1..(j - 1) : filters[k].kind \in {"drawtext", "overlay"}}
    IN  IF before = {} THEN InLabel(0)
        ELSE filters[CHOOSE k \in before : \A m \in before : m <= k].out

\* C15 -- for numbers of captions and watermarks that are not both zero the
\* filter chain is well-linked: the caption stage reads [0:v] and precedes
\* every watermark stage; overlay i reads the output of the preceding stage of
\* the chain and the scaled input [i+1:v], which is the file of watermark i;
\* every label is produced exactly once, before it is consumed; the command
\* maps the output label of the last stage.
C15_ChainWellLinked ==
    (pureOp = "buildCommand" /\ pureIn.subtitles + pureIn.watermarks > 0) =>
       LET filters == pureOut.filters
           command == pureOut.command
           nS == pureIn.subtitles
           nW == pureIn.watermarks
       IN  /\ Len(filters) = (IF nS > 0 THEN 1 ELSE 0) + 2 * nW
           /\ nS > 0 => /\ filters[1].kind = "drawtext"
                        /\ filters[1].ins = <<InLabel(0)>>
           /\ \A j \in 1..Len(filters) :
                 filters[j].kind = "drawtext" => j = 1
           /\ \A i \in 0..(nW - 1) :
                 \E j \in 2..Len(filters) :
                    /\ filters[j].kind = "overlay"
                    /\ filters[j].out = WmOutLabel(i)
                    /\ filters[j].ins = <<RunningLabel(filters, j), filters[j - 1].out>>
                    /\ filters[j - 1].kind = "scale"
                    /\ filters[j - 1].ins = <<InLabel(i + 1)>>
                    /\ command.inputs[i + 2] = FWatermark(i)
                    /\ \A j2 \in 1..Len(filters) :
                          (filters[j2].kind = "overlay" /\ filters[j2].out = WmOutLabel(i + 1))
                             => j2 > j
           /\ \A j, k \in 1..Len(filters) :
                 filters[j].out = filters[k].out => j = k
           /\ \A j \in 1..Len(filters) : \A n \in 1..Len(filters[j].ins) :
                 LET l == filters[j].ins[n] IN
                 IF l[1] = "in:v" THEN l[2] + 1 \in 1..Len(command.inputs)
                 ELSE Cardinality(Producers(filters, l, j)) = 1
           /\ command.inputs[1] = FInput
           /\ command.map = filters[Len(filters)].out

\* a chain with a caption stage and two watermarks
C15_Witness ==
    /\ pureOp = "buildCommand"
    /\ pureIn = [subtitles |-> 2, watermarks |-> 2]
    /\ Len(pureOut.filters) = 5
    /\ pureOut.command.map = WmOutLabel(1)

\* caption i of the project is among the draws of the latest frame
CaptionDrawn(i) == \E k \in 1..Len(lastFrame) : lastFrame[k] = <<"subtitle", i>>

\* C16 -- a caption is applied to the frame at time t exactly when
\* startTime <= t < startTime + duration: it is applied at t = startTime and
\* is not applied at t = startTime + duration.
C16_CaptionHalfOpen ==
    IsMainFrame =>
       \A i \in 1..Len(fcProject.subs) :
          CaptionDrawn(i) <=>
             /\ fcProject.subs[i].startTime <= fcTime
             /\ fcTime < fcProject.subs[i].startTime + fcProject.subs[i].duration

\* C17 -- an overlay whose position is 'custom' with customX and customY
\* present, 0 included, is anchored at x = containerWidth * customX / 100 and
\* y = containerHeight * customY / 100; no default is substituted for a
\* supplied value.
C17_CustomCoordinatesUsed ==
    (pureOp = "getSubtitlePosition" /\ pureIn.style.position = "custom") =>
       /\ 100 * pureOut.x = pureIn.canvas.width * pureIn.style.customX
       /\ 100 * pureOut.y = pureIn.canvas.height * pureIn.style.customY

\* C18 -- with every other input fixed, the anchor of the caption position
\* resolver is monotone in the custom coordinates: x is non-decreasing in
\* customX and y is non-decreasing in customY over 0..100.
C18_AnchorMonotone ==
    (pureOp = "getSubtitlePosition" /\ pureIn.style.position = "custom") =>
       /\ \A cx \in CustomCoords :
             cx <= pureIn.style.customX =>
                GetSubtitlePosition([pureIn.style EXCEPT !.customX = cx],
                                    pureIn.canvas.width, pureIn.canvas.height).x
                   <= pureOut.x
       /\ \A cy \in CustomCoords :
             cy <= pureIn.style.customY =>
                GetSubtitlePosition([pureIn.style EXCEPT !.customY = cy],
                                    pureIn.canvas.width, pureIn.canvas.height).y
                   <= pureOut.y

\* C19 -- every watermark created or updated through the editor satisfies
\* 0 <= startTime <= endTime <= videoDuration, whatever the playback time at
\* which the form was opened and whatever was typed into the start and end
\* fields before the watermark was submitted.
C19_WatermarkRangeValid ==
    \A w \in watermarks :
       /\ 0 <= w.startTime
       /\ w.startTime <= w.endTime
       /\ w.endTime <= edVideoDuration

\* C20 -- the display scale factor is clamped before it is applied: to
\* [0.7, 1.3] for every caption quantity derived from it, the font size as well
\* as the paddings, and to [0.8, 1.2] for every watermark quantity, size and
\* margin; so the scaled caption font size is never below the floor of 12 px
\* and the watermark margin stays within 16..24 px.
C20_ScaleClampedBeforeUse ==
    /\ pureOp = "SubtitleOverlay" =>
         LET c == Clamp(70, 130, pureIn.scaleFactor)
         IN  /\ pureOut.scaledFontSize = Max(12, Round(pureIn.style.fontSize * c, 100))
             /\ pureOut.padding = GetBackgroundStyles(pureIn.style.backgroundStyle, c)
             /\ pureOut.scaledFontSize >= 12
    /\ pureOp = "WatermarkOverlay" =>
         LET c == Clamp(80, 120, pureIn.scaleFactor)
         IN  /\ pureOut = WatermarkOverlay(c, pureIn.displaySize)
             /\ pureOut.maxWidth <= 3 * 120
             /\ pureOut.maxHeight <= 2 * 120
             /\ pureOut.padding \in 16..24

\* C21 -- once source playback has ended, the trailer-slide sequence of the
\* frame-capture backend visits the slides in list order with an index that
\* never decreases, draws only the current slide, leaves slide i only when it
\* has been held for its duration or its image failed to load, and signals the
\* end of rendering exactly once, whatever images load or fail, provided the
\* timers and the image callbacks eventually fire.
SlidePcs == {"slideImg", "slideTimer"}

RenderingOver == fcPc \in {"finalize", "done", "failed"}

SlideStepInOrder ==
    fcSession' = fcSession =>
       /\ slideIdx' \in {slideIdx, slideIdx + 1}
       /\ slideIdx' = slideIdx + 1 =>
            \/ fcPc = "slideImg"
            \/ /\ fcPc = "slideTimer"
               /\ \E adv \in 0..1 :
                     /\ slideElapsed + adv >= fcProject.discs[slideIdx + 1].duration
                     /\ FCSlideTimer(adv)
       /\ (fcPc \in SlidePcs /\ lastFrame' # lastFrame) =>
            lastFrame' = SlideFrameOps(slideIdx)
       /\ RenderingOver => fcPc' \notin (SlidePcs \cup {"render"})

C21_SlideSequence ==
    /\ [][SlideStepInOrder]_vars
    /\ (fcPc \in SlidePcs) ~> RenderingOver

C21_Witness ==
    /\ Len(fcProject.discs) = 2
    /\ slideIdx = 2
    /\ fcPc = "finalize"
    /\ lastFrame = SlideFrameOps(1)

\* the layer of a draw operation: the source frame, a watermark, a caption
DrawRank(op) == CASE op[1] = "video" -> 0 [] op[1] = "watermark" -> 1 [] OTHER -> 2

\* the draws of a frame are in the order source < watermarks < captions, the
\* overlays of one kind in list order, each once
DrawsInOrder(ops) ==
    /\ ops # <<>> /\ ops[1] = <<"video", 0>>
    /\ \A j, k \in 1..Len(ops) :
          j < k => \/ DrawRank(ops[j]) < DrawRank(ops[k])
                   \/ DrawRank(ops[j]) = DrawRank(ops[k]) /\ ops[j][2] < ops[k][2]

Drawn(ops, kind, i) == \E k \in 1..Len(ops) : ops[k] = <<kind, i>>

\* C22 -- on every frame of the frame-capture render loop the draws are, in
\* order, the source frame, the watermarks active at the current time in list
\* order, the captions active at the current time in list order; nothing is
\* drawn for an overlay that is not active.  A watermark is active on
\* [startTime, endTime], a caption on [startTime, startTime + duration); a
\* watermark is drawn when its image is available.
C22_DrawOrder ==
    pureOp = "renderMainVideoFrame" =>
       LET ops == pureOut.ops
           p == pureIn.project
           t == pureIn.currentTime
       IN  /\ DrawsInOrder(ops)
           /\ \A i \in 1..Len(p.wms) :
                 Drawn(ops, "watermark", i) <=>
                    /\ p.wms[i].startTime <= t /\ t <= p.wms[i].endTime
                    /\ i \in pureIn.loaded
           /\ \A i \in 1..Len(p.subs) :
                 Drawn(ops, "subtitle", i) <=>
                    /\ p.subs[i].startTime <= t
                    /\ t < p.subs[i].startTime + p.subs[i].duration

\* the files produced by the engine commands issued so far, in order
ExecFiles ==
    LET execs == SelectSeq(ffCalls, LAMBDA c : c.op = "exec")
    IN  [i \in 1..Len(execs) |-> execs[i].file]

\* main render, the clips of slides 0..n-1, concatenation
StagesInOrder(n) ==
    <<FMainOutput>> \o [i \in 1..n |-> <<"disclaimer_video", i - 1>>] \o <<FOutput>>

IsPrefix(q, r) == Len(q) <= Len(r) /\ \A i \in 1..Len(q) : q[i] = r[i]

\* C23 -- a filter-graph export with n >= 1 slides issues its engine commands
\* one after the other in the order main render, clip of slide 0, 1, ..., n-1,
\* concatenation, and the manifest it writes for the concatenation lists the
\* output of the main render first, then the n clips in list order.
C23_StagesSequential ==
    ffIn.nDisc >= 1 =>
       /\ IsPrefix(ExecFiles, StagesInOrder(ffIn.nDisc))
       /\ ffPc \in {"readOut", "done"} => ExecFiles = StagesInOrder(ffIn.nDisc)
       /\ \A i \in 1..Len(ffCalls) :
             ffCalls[i].file = FConcatList =>
                ffCalls[i].data =
                   <<FMainOutput>> \o
                   [k \in 1..ffIn.nDisc |-> <<"disclaimer_video", k - 1>>]

C23_Witness ==
    /\ ffIn.nDisc = 2
    /\ ffPc = "done"
    /\ ExecFiles = StagesInOrder(2)
    /\ \E i \in 1..Len(ffCalls) : ffCalls[i].file = FConcatList

\* one step of a frame-capture export, as far as its audio is concerned
AudioBeforeRecording ==
    /\ \* the chain runs at one place of the export, before the recorder
       \* exists and before any frame
       (fcAudio' # fcAudio /\ fcAudio' # NoAudio) =>
          /\ fcPc = "loadAudio" /\ fcAudio = NoAudio
          /\ fcRecorder' = "none" /\ frameCount' = 0
    /\ \* that place is not entered again
       fcPc' = "loadAudio" => fcPc \in {"loadVideo", "loadAudio"}
    /\ \* the recorder starts with the finished chain's outcome attached
       (fcRecorder' = "recording" /\ fcRecorder # "recording") =>
          /\ fcAudio # NoAudio
          /\ hasAudioTrack = fcAudio.track
    /\ \* frames are rendered by a started recorder only
       (frameCount' > 0 /\ frameCount = 0) => fcRecorder = "recording"
    /\ \* the audio track of the stream does not change once recording started
       hasAudioTrack' # hasAudioTrack => fcRecorder' = "none"

\* C24 -- in every frame-capture export that gets as far as its recorder the
\* audio acquisition chain has been attempted exactly once and has finished,
\* with or without an audio track, before the recorder is started and before
\* the first frame is rendered; no audio track is added to the recorded stream
\* after recording has started.
C24_AudioBeforeRecording == [][AudioBeforeRecording]_vars

C24_Witness ==
    /\ fcPc = "render"
    /\ fcRecorder = "recording"
    /\ frameCount > 0
    /\ hasAudioTrack
    /\ "audio" \notin fcWarnings

\* C25 -- throughout a frame-capture export every progress value delivered to
\* the caller is an integer in [0, 100] and the delivered values never
\* decrease; while frames are rendered the value derived from
\* framesRendered / totalEstimatedFrames stays within [40, 90], also when more
\* frames are rendered than were estimated.
C25_ProgressBounded ==
    /\ \A i \in 1..Len(fcEvents) :
          /\ fcEvents[i].progress \in 0..100
          /\ i > 1 => fcEvents[i - 1].progress <= fcEvents[i].progress
    /\ fcPc \in {"render", "slideImg", "slideTimer"} =>
          Last(fcEvents).progress \in 40..90

\* more frames rendered than estimated
C25_Witness ==
    /\ fcPc = "render"
    /\ frameCount > TotalFrames(fcProject)
    /\ Last(fcEvents).progress = 90

\* the draw operation composites a caption or a watermark
IsOverlayOp(op) == op[1] \in {"watermark", "subtitle"}

\* C26 -- no caption and no watermark is composited onto a trailer-slide frame
\* in either backend, whatever the overlays' intervals are: a slide frame of
\* the frame-capture backend holds the solid background and the slide image
\* only, and the filter-graph backend applies the overlay chain to the main
\* render only, builds each slide clip from the slide image alone and joins
\* the clips by stream copy.
C26_NoOverlayOnSlides ==
    /\ (lastFrame # <<>> /\ ~IsMainFrame) =>
          /\ \A k \in 1..Len(lastFrame) : ~IsOverlayOp(lastFrame[k])
          /\ \E i \in 0..(Len(fcProject.discs) - 1) : lastFrame = <<<<"black", 0>>, <<"slide", i>>>>
    /\ \A k \in 1..Len(lastFrame) : IsOverlayOp(lastFrame[k]) => IsMainFrame
    /\ \A i \in 1..Len(ffCalls) :
          ffCalls[i].op = "exec" =>
             LET c == ffCalls[i] IN
             /\ c.file[1] = "disclaimer_video" =>
                   c.data = [inputs |-> {<<"disclaimer", c.file[2]>>},
                             filters |-> "scalePad"]
             /\ c.data.filters = "overlays" => c.file \in {FMainOutput, FOutput}
             /\ (c.file = FOutput /\ ffIn.nDisc > 0) => c.data.filters = "copy"

\* a slide frame of a project whose watermark interval extends past the source
C26_Witness ==
    /\ fcPc = "slideTimer"
    /\ lastFrame = <<<<"black", 0>>, <<"slide", 0>>>>
    /\ \E i \in 1..Len(fcProject.wms) : fcProject.wms[i].endTime > fcProject.dur
    /\ Len(fcProject.subs) > 0

\* C27 -- after any sequence of loading the video and adding, updating and
\* deleting trailer slides, the timeline duration held in the application
\* state equals video.duration + the sum of the slide durations, and the block
\* of slide k starts at video.duration + the durations of the slides before it.
C27_TimelineDurationConsistent ==
    (hasVideo /\ ~metadataPending) =>
       /\ timelineDuration = videoDuration + SumDuration(disclaimers)
       /\ \A k \in 0..(Len(disclaimers) - 1) :
             SlideBlockStart(k) = videoDuration + SumDuration(SubSeq(disclaimers, 1, k))

\* C28 -- in preview playback with at least one trailer slide, after the base
\* clip ends playback goes on through the slides without user input: the last
\* slide of the list gets shown and the playhead eventually reaches the end of
\* the composite timeline, the media events being fairly scheduled.
C28_PlaybackReachesEnd ==
    /\ <>(showingDisclaimer = Len(disclaimers) - 1)
    /\ <>(timelineTime = TotalDuration)

\* C29 -- when one manager performs several exports one after another, each
\* with its own progress callback, every progress event raised while export k
\* runs, the engine's included, is delivered to the callback passed to export
\* k and never to the callback of an earlier export.
C29_ProgressToOwnCallback ==
    \A i \in 1..Len(ffEvents) : ffEvents[i].cb = ffExport

\* C30 -- engine initialization is an ordered fallback with retry across
\* calls: the alternate location is tried only after the primary load failed;
\* the manager becomes loaded only by a load that succeeded, and loaded implies
\* an engine instance; when both loads fail the call fails and the manager
\* stays unloaded, and an export called on an unloaded manager initializes
\* again; once loaded the manager stays loaded and no later call loads.
Loading == ffPc \in {"loadPrimary", "loadAlt"}

LoadSucceeded == Loading /\ ffPc' = "writeInput"

InitializeOrdered ==
    /\ (ffPc' = "loadAlt" /\ ffPc # "loadAlt") => (ffPc = "loadPrimary" /\ ~isLoaded')
    /\ (~isLoaded /\ isLoaded') => LoadSucceeded
    /\ LoadSucceeded => isLoaded'
    /\ (ffPc = "loadAlt" /\ ffPc' # "loadAlt" /\ ~LoadSucceeded) =>
          (ffPc' = "failed" /\ ~isLoaded')
    /\ (ffExport' # ffExport /\ ~isLoaded) => ffPc' = "loadPrimary"
    /\ isLoaded => (isLoaded' /\ ffPc' \notin {"loadPrimary", "loadAlt"})

C30_InitializeFallback ==
    /\ [][InitializeOrdered]_vars
    /\ [](isLoaded => ffmpeg = "inst")
    /\ [](Loading => ~isLoaded)

\* a second export initializes again after both loads of the first failed,
\* and this time the alternate load succeeds
C30_Witness ==
    /\ ffExport = 2
    /\ hookCb = 2
    /\ isLoaded
    /\ \E i \in 1..Len(ffEvents) : ffEvents[i].phase = "loading" /\ ffEvents[i].progress = 50

====
